---- MODULE Spec2Model ----
(***************************************************************************)
(* A model of repotest's test-execution harness:                           *)
(*   - the correctness evaluator (collect/step6_e2e_execution.py),         *)
(*   - the three-phase task protocol (build_and_run_tests_docker),         *)
(*   - the report parsers of the docker backends and the stdout parsers,   *)
(*   - build_env / run_test of the docker repository handles,              *)
(*   - start_container against the docker daemon,                          *)
(*   - the task dispatcher (step6_e2e_execution) and its worker pool,      *)
(*   - _merge_reports applied to merged reports,                           *)
(*   - Task.task_id and PythonTask.run (core/models.py),                   *)
(*   - subprocess_run / subprocess_popen of the local repositories.       *)
(* Each part has its own specification over the shared variables; the      *)
(* variables a specification does not use stay at their idle values.       *)
(***************************************************************************)
EXTENDS Integers, Sequences, FiniteSets, TLC

VARIABLES
    \* get_task_correctness: its three arguments and its result
    \* (cpc: "idle", "call" before the call, "returned" after it)
    dct_test_before, dct_test_after, dct_test_gold, res, cpc,
    \* build_and_run_tests_docker: the task record, the position in the
    \* function, the handle operations called so far, whether one of them
    \* raised, the value returned, and whether a run_test came back with the
    \* result of a test command that ran out of time (timed_out)
    task, tpc, calls, handle_raised, ret, timed_out,
    \* a report parser: the function called, its input, the dict it returned
    parser, pinput, report,
    \* a docker repository handle: its fields and the sandbox it owns (h), the
    \* last operation called on it with its arguments and outcome (last), the
    \* number of operations called so far
    h, last, ncalls,
    \* the docker daemon: its containers (daemon), the container the handle
    \* holds in self.container (self_container, 0 for None), the last
    \* operation on the handle's container (clast), the ids handed out
    daemon, self_container, clast, nextid,
    \* step6_e2e_execution: the tasks read from the input file (tasks), the
    \* size of the pool (n_jobs), the state of each task's call of
    \* build_and_run_tests_docker (futures), the list the results are
    \* collected in (results), the position of the main thread (bpc)
    tasks, n_jobs, futures, results, bpc,
    \* a PythonTask (mtask), the last call of run on it with the task_id it
    \* had before (mlast), the number of calls so far
    mtask, mlast, nruns,
    \* AbstractLocalRepo: the process a call started (process), the fields
    \* of the repository and the outcome of the call (local), the position
    \* in the call (lpc), the seconds since the call began (elapsed) and the
    \* value of elapsed when process.wait was entered (wait_start)
    process, local, lpc, elapsed, wait_start

varsCorrect == <<dct_test_before, dct_test_after, dct_test_gold, res, cpc>>
varsTask    == <<task, tpc, calls, handle_raised, ret, timed_out>>
varsParse   == <<parser, pinput, report>>
varsHandle  == <<h, last, ncalls>>
varsDaemon  == <<daemon, self_container, clast, nextid>>
varsBatch   == <<tasks, n_jobs, futures, results, bpc>>
varsModels  == <<mtask, mlast, nruns>>
varsLocal   == <<process, local, lpc, elapsed, wait_start>>
varsLater   == <<varsLocal>>
varsMore    == <<varsDaemon, varsBatch, varsModels, varsLater>>
varsRest    == <<varsParse, varsHandle, varsMore>>
vars        == <<varsCorrect, varsTask, varsRest>>

IdleParse ==
    /\ parser = "none"
    /\ pinput = <<>>
    /\ report = [kind |-> "none"]

IdleHandle ==
    /\ h = [lang |-> "none"]
    /\ last = [op |-> "none"]
    /\ ncalls = 0

IdleDaemon ==
    /\ daemon = {}
    /\ self_container = 0
    /\ clast = [op |-> "none"]
    /\ nextid = 0

IdleBatch ==
    /\ tasks = <<>>
    /\ n_jobs = 0
    /\ futures = <<>>
    /\ results = <<>>
    /\ bpc = "idle"

IdleModels ==
    /\ mtask = [repo |-> <<>>]
    /\ mlast = [op |-> "none"]
    /\ nruns = 0

NoProcess == [state |-> "none"]

IdleLocal ==
    /\ process = NoProcess
    /\ local = [op |-> "none"]
    /\ lpc = "idle"
    /\ elapsed = 0
    /\ wait_start = 0

IdleLater == IdleLocal

IdleMore == IdleDaemon /\ IdleBatch /\ IdleModels /\ IdleLater

IdleRest == IdleParse /\ IdleHandle /\ IdleMore

(***************************************************************************)
(* Bounds                                                                  *)
(***************************************************************************)
MaxTests  == 3      \* tests listed in the after and gold reports together
MaxBefore == 1      \* tests listed in a before report

RECURSIVE SeqsUpTo(_, _)
SeqsUpTo(S, n) ==
    IF n = 0 THEN {<<>>}
    ELSE LET shorter == SeqsUpTo(S, n - 1)
         IN  shorter \cup {Append(s, x) : s \in {t \in shorter : Len(t) = n - 1}, x \in S}

(***************************************************************************)
(* Correctness evaluator                                                   *)
(***************************************************************************)
TestNames == {"t1", "t2", "new_test"}
Outcomes  == {"passed", "failed", "skipped"}
TestEntry == [nodeid : TestNames, outcome : Outcomes]

\* the "tests" list of a phase result: test_result["report"]["tests"]
PhaseReports  == SeqsUpTo(TestEntry, MaxTests)
BeforeReports == SeqsUpTo([nodeid : {"t1"}, outcome : {"passed", "failed"}], MaxBefore)

Raised == [raised |-> TRUE, passed |-> {}, failed |-> {}]

\* the loop of extract_test over list_of_tests, from position i on
RECURSIVE extract_loop(_, _, _, _, _)
extract_loop(list_of_tests, i, passed, failed, was) ==
    IF i > Len(list_of_tests)
    THEN [raised |-> FALSE, passed |-> passed, failed |-> failed]
    ELSE LET test_name == list_of_tests[i].nodeid
         IN  IF test_name \in was
             THEN Raised                       \* assert test_name not in was
             ELSE IF list_of_tests[i].outcome = "passed"
                  THEN extract_loop(list_of_tests, i + 1, passed \cup {test_name},
                                    failed, was \cup {test_name})
                  ELSE extract_loop(list_of_tests, i + 1, passed,
                                    failed \cup {test_name}, was \cup {test_name})

\* a slip: only the outcome "failed" puts a test in the failed set
extract_test_only_failed(list_of_tests) ==
    LET r == extract_loop(list_of_tests, 1, {}, {}, {})
    IN  IF r.raised THEN r
        ELSE [r EXCEPT !.failed = {list_of_tests[i].nodeid :
                  i \in {j \in DOMAIN list_of_tests : list_of_tests[j].outcome = "failed"}}]

extract_test(list_of_tests) == extract_loop(list_of_tests, 1, {}, {}, {})

CorrectnessRaised ==
    [raised |-> TRUE, task_perfect |-> FALSE, task_ok |-> FALSE,
     PASS_TO_PASS |-> {}, FAIL_TO_PASS |-> {}]

\* a slip: task_ok compares gold with the before phase
get_task_correctness_before(before, after, gold) ==
    LET b == extract_test(before)
        a == extract_test(after)
        g == extract_test(gold)
    IN  IF b.raised \/ a.raised \/ g.raised
        THEN CorrectnessRaised
        ELSE [raised       |-> FALSE,
              task_perfect |-> /\ Cardinality(g.passed) > Cardinality(a.passed)
                               /\ (a.passed \cap g.passed) = a.passed,
              task_ok      |-> Cardinality(g.passed \ b.passed) > 0,
              PASS_TO_PASS |-> g.passed,
              FAIL_TO_PASS |-> g.failed]

\* a slip: task_perfect forgets the no-regression conjunct
get_task_correctness_count(before, after, gold) ==
    LET b == extract_test(before)
        a == extract_test(after)
        g == extract_test(gold)
    IN  IF b.raised \/ a.raised \/ g.raised
        THEN CorrectnessRaised
        ELSE [raised       |-> FALSE,
              task_perfect |-> Cardinality(g.passed) > Cardinality(a.passed),
              task_ok      |-> Cardinality(g.passed \ a.passed) > 0,
              PASS_TO_PASS |-> g.passed,
              FAIL_TO_PASS |-> g.failed]

\* a slip: FAIL_TO_PASS holds the tests gold newly makes pass
get_task_correctness_f2p(before, after, gold) ==
    LET b == extract_test(before)
        a == extract_test(after)
        g == extract_test(gold)
    IN  IF b.raised \/ a.raised \/ g.raised
        THEN CorrectnessRaised
        ELSE [raised       |-> FALSE,
              task_perfect |-> /\ Cardinality(g.passed) > Cardinality(a.passed)
                               /\ (a.passed \cap g.passed) = a.passed,
              task_ok      |-> Cardinality(g.passed \ a.passed) > 0,
              PASS_TO_PASS |-> g.passed,
              FAIL_TO_PASS |-> g.passed \ a.passed]

\* a slip: task_ok asks for a test that failed in after and passes in gold
get_task_correctness_failed_after(before, after, gold) ==
    LET b == extract_test(before)
        a == extract_test(after)
        g == extract_test(gold)
    IN  IF b.raised \/ a.raised \/ g.raised
        THEN CorrectnessRaised
        ELSE [raised       |-> FALSE,
              task_perfect |-> /\ Cardinality(g.passed) > Cardinality(a.passed)
                               /\ (a.passed \cap g.passed) = a.passed,
              task_ok      |-> Cardinality(g.passed \cap a.failed) > 0,
              PASS_TO_PASS |-> g.passed,
              FAIL_TO_PASS |-> g.failed]

get_task_correctness(before, after, gold) ==
    LET b == extract_test(before)
        a == extract_test(after)
        g == extract_test(gold)
    IN  IF b.raised \/ a.raised \/ g.raised
        THEN CorrectnessRaised
        ELSE [raised       |-> FALSE,
              task_perfect |-> /\ Cardinality(g.passed) > Cardinality(a.passed)
                               /\ (a.passed \cap g.passed) = a.passed,
              task_ok      |-> Cardinality(g.passed \ a.passed) > 0,
              PASS_TO_PASS |-> g.passed,
              FAIL_TO_PASS |-> g.failed]

NotCalled == CorrectnessRaised

IdleCorrect ==
    /\ dct_test_before = <<>>
    /\ dct_test_after = <<>>
    /\ dct_test_gold = <<>>
    /\ res = NotCalled
    /\ cpc = "idle"

(***************************************************************************)
(* build_and_run_tests_docker                                              *)
(***************************************************************************)
\* files a test_patch can touch: path, whether the "+++ b/" line ends with
\* ".py", whether "test" occurs in the basename
PatchFiles ==
    {[name |-> "tests/test_a.py",     py |-> TRUE,  test |-> TRUE],
     [name |-> "src/a.py",            py |-> TRUE,  test |-> FALSE],
     [name |-> "tests/test_data.txt", py |-> FALSE, test |-> TRUE]}

\* a test_patch: the files of its diff headers and whether it carries a
\* binary diff ("Binary files" / "GIT binary patch")
TestPatches == [files : SUBSET PatchFiles, binary : BOOLEAN]

extract_test_files_from_patch(patch_text) ==
    IF patch_text.files = {} THEN {}
    ELSE IF patch_text.binary THEN {}
    ELSE {f.name : f \in {g \in patch_text.files : g.py /\ g.test}}

\* a slip: dct_tmp is taken for a name of the scope
BoundNames_with_dct_tmp == {"task", "delete_log", "test_files", "repo", "dct_build", "dct_tmp"}

\* the names bound in the scope of build_and_run_tests_docker when the
\* try block runs: its parameters, its locals and the module's globals
BoundNames == {"task", "delete_log", "test_files", "repo", "dct_build"}

\* the statements of the try block after the build phase, lines 165-175:
\* the handle operation, the name its argument is read from, the task key
\* a result is stored under
Body ==
    << [op |-> "clean",       from |-> "",        arg |-> "",           key |-> ""],
       [op |-> "run_test",    from |-> "task",    arg |-> "",           key |-> "dct_test_before"],
       [op |-> "clean",       from |-> "",        arg |-> "",           key |-> ""],
       [op |-> "apply_patch", from |-> "dct_tmp", arg |-> "test_patch", key |-> ""],
       [op |-> "run_test",    from |-> "task",    arg |-> "",           key |-> "dct_test_after"],
       [op |-> "clean",       from |-> "",        arg |-> "",           key |-> ""],
       [op |-> "apply_patch", from |-> "dct_tmp", arg |-> "test_patch", key |-> ""],
       [op |-> "apply_patch", from |-> "dct_tmp", arg |-> "patch",      key |-> ""],
       [op |-> "run_test",    from |-> "task",    arg |-> "",           key |-> "dct_test_gold"] >>

\* what a raising handle operation raises
OpRaises(op) ==
    CASE op = "PythonDockerRepo" -> {"GitException"}
      [] op = "build_env"        -> {"TimeOutException", "DockerException"}
      [] op = "clean"            -> {"GitException"}
      [] op = "apply_patch"      -> {"GitException"}
      [] op = "run_test"         -> {"DockerException"}

\* the two except clauses, lines 186-189
ExceptionText(e) == IF e = "GitException" THEN "Repo missing or deleted" ELSE e

At(at, i) == [at |-> at, i |-> i]

IdleTask ==
    /\ task = [repo_build |-> 0]
    /\ tpc = At("idle", 0)
    /\ calls = <<>>
    /\ handle_raised = FALSE
    /\ ret = "none"
    /\ timed_out = FALSE

InitCorrect ==
    /\ dct_test_before \in BeforeReports
    /\ dct_test_after \in PhaseReports
    /\ dct_test_gold \in PhaseReports
    /\ Len(dct_test_after) + Len(dct_test_gold) <= MaxTests
    /\ res = NotCalled
    /\ cpc = "call"
    /\ IdleTask
    /\ IdleRest

\* step6_e2e_execution.py line 177: the call of get_task_correctness
GetTaskCorrectness ==
    /\ cpc = "call"
    /\ cpc' = "returned"
    /\ res' = get_task_correctness(dct_test_before, dct_test_after, dct_test_gold)
    /\ UNCHANGED <<dct_test_before, dct_test_after, dct_test_gold, varsTask, varsRest>>

NextCorrect == GetTaskCorrectness

SpecCorrect == InitCorrect /\ [][NextCorrect]_vars

\* reports a run_test of the task protocol can return
TaskReports == BeforeReports \cup {r \in PhaseReports : Len(r) <= 1}

InitTask ==
    /\ task \in [repo_build : {-1, 0, 1}, test_patch : TestPatches, was_build : BOOLEAN,
                  delete_log : BOOLEAN, exception : {"unset"}, run_status : {-1},
                  keys : {{}}]
    /\ tpc = At("start", 0)
    /\ calls = <<>>
    /\ handle_raised = FALSE
    /\ ret = "none"
    /\ timed_out = FALSE
    /\ IdleCorrect
    /\ IdleRest

\* the handler of an exception raised in the try block, lines 186-190
\* a slip: the handler drops the phase logs of a task with delete_log
Excepted_logs_deleted(t, e) ==
    [t EXCEPT !.exception = ExceptionText(e),
              !.keys = IF t.delete_log
                       THEN @ \ {"dct_test_before", "dct_test_after", "dct_test_gold"}
                       ELSE @]

Excepted(t, e) == [t EXCEPT !.exception = ExceptionText(e)]

\* lines 133-153: defaults, the repo_build and test-file checks, the handle
TaskEnter ==
    /\ tpc = At("start", 0)
    /\ LET t0 == [task EXCEPT !.exception = "", !.run_status = 0]
           test_files == extract_test_files_from_patch(task.test_patch)
           t1 == [t0 EXCEPT !.keys = @ \cup {"test_files_small"}]
           t2 == [t1 EXCEPT !.keys = @ \cup {"command_test_small"}]
       IN  IF task.repo_build # 1
           THEN /\ task' = [t0 EXCEPT !.exception = "skip, not builded", !.run_status = 0]
                /\ ret' = "None"
                /\ tpc' = At("done", 0)
                /\ UNCHANGED <<calls, handle_raised>>
           ELSE IF test_files = {}
           THEN /\ task' = [t1 EXCEPT !.exception = "No suitable test files in test_patch"]
                /\ ret' = "task"
                /\ tpc' = At("done", 0)
                /\ UNCHANGED <<calls, handle_raised>>
           ELSE /\ calls' = Append(calls, "PythonDockerRepo")
                /\ \/ /\ task' = t2
                      /\ tpc' = At("build", 0)
                      /\ UNCHANGED <<handle_raised, ret>>
                   \/ \E e \in OpRaises("PythonDockerRepo") :
                        /\ task' = Excepted(t2, e)
                        /\ handle_raised' = TRUE
                        /\ ret' = "task"
                        /\ tpc' = At("done", 0)
    /\ UNCHANGED <<timed_out, varsCorrect, varsRest>>

\* lines 155-162: build_env unless the reusable image exists
TaskBuild ==
    /\ tpc = At("build", 0)
    /\ IF ~task.was_build
       THEN /\ calls' = Append(calls, "build_env")
            /\ \/ /\ task' = [task EXCEPT !.keys = @ \cup {"dct_build"}]
                  /\ tpc' = At("body", 1)
                  /\ UNCHANGED <<handle_raised, ret>>
               \/ \E e \in OpRaises("build_env") :
                    /\ task' = Excepted(task, e)
                    /\ handle_raised' = TRUE
                    /\ ret' = "task"
                    /\ tpc' = At("done", 0)
       ELSE /\ tpc' = At("body", 1)
            /\ UNCHANGED <<task, calls, handle_raised, ret>>
    /\ UNCHANGED <<timed_out, varsCorrect, varsRest>>

AtBody(op) == tpc.at = "body" /\ Body[tpc.i].op = op

\* after a statement of the body that did not raise
Advance == tpc' = IF tpc.i < Len(Body) THEN At("body", tpc.i + 1) ELSE At("done", 0)

\* a handle operation of the body raising e
BodyRaise(e) ==
    /\ task' = Excepted(task, e)
    /\ handle_raised' = TRUE
    /\ ret' = "task"
    /\ tpc' = At("done", 0)

\* repo.clean(), lines 165, 168, 172
TaskClean ==
    /\ AtBody("clean")
    /\ calls' = Append(calls, "clean")
    /\ \/ Advance /\ UNCHANGED <<task, handle_raised, ret>>
       \/ \E e \in OpRaises("clean") : BodyRaise(e)
    /\ UNCHANGED <<timed_out, varsCorrect, varsRest>>

\* repo.apply_patch(<from>[<arg>]), lines 169, 173, 174: the argument is
\* evaluated before the call
TaskApplyPatch ==
    /\ AtBody("apply_patch")
    /\ IF Body[tpc.i].from \notin BoundNames
       THEN /\ task' = Excepted(task, "NameError")
            /\ ret' = "task"
            /\ tpc' = At("done", 0)
            /\ UNCHANGED <<calls, handle_raised>>
       ELSE /\ calls' = Append(calls, Body[tpc.i].arg)
            /\ \/ Advance /\ UNCHANGED <<task, handle_raised, ret>>
               \/ \E e \in OpRaises("apply_patch") : BodyRaise(e)
    /\ UNCHANGED <<timed_out, varsCorrect, varsRest>>

\* lines 177-185, after the gold run: the correctness keys, delete_log, status
Epilogue(t, r) ==
    LET withKeys == [t EXCEPT !.keys = @ \cup {"task_perfect", "task_ok", "PASS_TO_PASS", "FAIL_TO_PASS"}]
        logged   == IF t.delete_log
                    THEN [withKeys EXCEPT !.keys = @ \ {"dct_test_before", "dct_test_after", "dct_test_gold"}]
                    ELSE withKeys
    IN  IF r.raised THEN Excepted(t, "AssertionError")
        ELSE [logged EXCEPT !.run_status = 1]

\* task[<key>] = repo.run_test(...), lines 166, 170, 175; the gold run is
\* followed by lines 177-190.  A test command that runs out of time does
\* not raise: run_test returns a result with returncode 2 and stderr
\* "Timeout exception" (tests/core/test_timeout.py), which is stored like
\* any other.
TaskRunTest ==
    /\ AtBody("run_test")
    /\ calls' = Append(calls, "run_test")
    /\ \/ \E tests \in TaskReports :
            LET key    == Body[tpc.i].key
                stored == [task EXCEPT !.keys = @ \cup {key}]
                b == IF key = "dct_test_before" THEN tests ELSE dct_test_before
                a == IF key = "dct_test_after"  THEN tests ELSE dct_test_after
                g == IF key = "dct_test_gold"   THEN tests ELSE dct_test_gold
            IN  /\ dct_test_before' = b
                /\ dct_test_after' = a
                /\ dct_test_gold' = g
                /\ Advance
                /\ UNCHANGED handle_raised
                /\ \E expired \in BOOLEAN : timed_out' = (timed_out \/ expired)
                /\ IF tpc.i < Len(Body)
                   THEN /\ task' = stored
                        /\ UNCHANGED <<res, cpc, ret>>
                   ELSE /\ res' = get_task_correctness(b, a, g)
                        /\ cpc' = "returned"
                        /\ task' = Epilogue(stored, res')
                        /\ ret' = "task"
       \/ /\ \E e \in OpRaises("run_test") : BodyRaise(e)
          /\ UNCHANGED <<timed_out, varsCorrect>>
    /\ UNCHANGED varsRest

NextTask == TaskEnter \/ TaskBuild \/ TaskClean \/ TaskApplyPatch \/ TaskRunTest

SpecTask == InitTask /\ [][NextTask]_vars

\* the handle operations of the three phases, in the order of section 4.5
ProtocolOrder ==
    <<"clean", "run_test",
      "clean", "test_patch", "run_test",
      "clean", "test_patch", "patch", "run_test">>

PhaseCalls == SelectSeq(calls, LAMBDA c : c \notin {"PythonDockerRepo", "build_env"})

TaskDone == tpc.at = "done"

Evaluable ==
    /\ task.repo_build = 1
    /\ extract_test_files_from_patch(task.test_patch) # {}

\* C4: for a task with repo_build = 1 and a suitable test file, the
\* function calls clean, run_test; clean, apply_patch(test_patch), run_test;
\* clean, apply_patch(test_patch), apply_patch(patch), run_test in this
\* order and, when no handle operation raises, ends with run_status = 1 and
\* task_ok, task_perfect, PASS_TO_PASS, FAIL_TO_PASS set.
C4_Protocol ==
    (TaskDone /\ Evaluable /\ ~handle_raised) =>
        /\ PhaseCalls = ProtocolOrder
        /\ task.run_status = 1
        /\ {"task_ok", "task_perfect", "PASS_TO_PASS", "FAIL_TO_PASS"} \subseteq task.keys

\* a phase failed: clean, apply_patch or run_test raised, or a test command
\* ran out of time
PhaseFailed ==
    \/ timed_out
    \/ /\ handle_raised
       /\ calls # <<>>
       /\ calls[Len(calls)] \in {"clean", "test_patch", "patch", "run_test"}

PhaseLogs == {"dct_test_before", "dct_test_after", "dct_test_gold"}

\* C25: a step of the try block that ends the function without run_status 1
\* (a later phase raised) leaves the results of the phases completed before
\* it in the task record, with delete_log true as well, and sets the
\* exception text; a step removes a phase log from the record only when
\* delete_log is true and the step ends the function with run_status 1.
C25_LogsKept ==
    [][/\ (tpc.at = "body" /\ tpc'.at = "done" /\ task'.run_status # 1) =>
              /\ (task.keys \cap PhaseLogs) \subseteq task'.keys
              /\ task'.exception \notin {"", "unset"}
       /\ ((task.keys \cap PhaseLogs) \ task'.keys # {}) =>
              (task.delete_log /\ task'.run_status = 1)]_vars

\* the second phase raised with delete_log true after the first phase had
\* stored its result
C25_Witness ==
    /\ TaskDone
    /\ task.delete_log
    /\ task.run_status # 1
    /\ task.exception \notin {"", "unset"}
    /\ "dct_test_before" \in task.keys

PassedNames(tests) == {tests[i].nodeid : i \in {j \in DOMAIN tests : tests[j].outcome = "passed"}}
OtherNames(tests)  == {tests[i].nodeid : i \in {j \in DOMAIN tests : tests[j].outcome # "passed"}}

Returned == cpc = "returned" /\ ~res.raised

\* C5: get_task_correctness returns task_ok = TRUE exactly when some test
\* name is in passed(gold) and not in passed(after), and the value is the
\* same for every before report the call returns for.
C5_TaskOk ==
    Returned =>
        /\ res.task_ok = (\E t \in PassedNames(dct_test_gold) : t \notin PassedNames(dct_test_after))
        /\ \A b \in BeforeReports :
              LET r == get_task_correctness(b, dct_test_after, dct_test_gold)
              IN  ~r.raised => r.task_ok = res.task_ok

C5_Witness ==
    /\ Returned
    /\ res.task_ok
    /\ PassedNames(dct_test_before) # PassedNames(dct_test_after)
    /\ PassedNames(dct_test_gold) \ PassedNames(dct_test_before) = {}

NewTestScenario ==
    /\ Returned
    /\ \E i \in DOMAIN dct_test_after : dct_test_after[i] = [nodeid |-> "new_test", outcome |-> "failed"]
    /\ \E i \in DOMAIN dct_test_gold : dct_test_gold[i] = [nodeid |-> "new_test", outcome |-> "passed"]
    /\ \A i \in DOMAIN dct_test_after :
          dct_test_after[i].nodeid # "new_test" => dct_test_after[i].outcome = "passed"
    /\ \A i \in DOMAIN dct_test_gold : dct_test_gold[i].outcome = "passed"
    /\ PassedNames(dct_test_gold) = PassedNames(dct_test_after) \cup {"new_test"}

\* C7 as stated: in the scenario FAIL_TO_PASS = {new_test} and task_ok.
C7_Original ==
    NewTestScenario => (res.FAIL_TO_PASS = {"new_test"} /\ res.task_ok)

\* C7 amended: in the scenario FAIL_TO_PASS is the set of tests not passing
\* in gold, which is empty; new_test is in PASS_TO_PASS and task_ok is TRUE.
C7_Amended ==
    NewTestScenario =>
        /\ res.FAIL_TO_PASS = OtherNames(dct_test_gold)
        /\ res.FAIL_TO_PASS = {}
        /\ "new_test" \in res.PASS_TO_PASS
        /\ res.task_ok

C7_Witness == NewTestScenario /\ res.task_ok /\ res.FAIL_TO_PASS = {}

\* C32: whatever the after and gold reports, a result of
\* get_task_correctness with task_perfect = TRUE has task_ok = TRUE.
C32_PerfectIsOk == Returned => (res.task_perfect => res.task_ok)

\* a perfect task whose gold phase passes a test the after phase never ran
C32_Witness ==
    /\ Returned
    /\ res.task_perfect
    /\ res.task_ok
    /\ dct_test_after = <<[nodeid |-> "t1", outcome |-> "passed"]>>
    /\ PassedNames(dct_test_gold) = {"t1", "new_test"}

ReportedNames(tests) == {tests[i].nodeid : i \in DOMAIN tests}
ListsTwice(tests)    == \E i, j \in DOMAIN tests : i # j /\ tests[i].nodeid = tests[j].nodeid

\* C33: for each phase report extract_test either fails its assertion, when
\* the report lists a test name twice, or returns disjoint passed and failed
\* sets that together hold every reported name, the failed set holding
\* every name whose outcome is not "passed"; so a call that returns has
\* PASS_TO_PASS and FAIL_TO_PASS disjoint, and a call on a report listing a
\* name twice does not return.
C33_Partition ==
    cpc = "returned" =>
        /\ \A tests \in {dct_test_before, dct_test_after, dct_test_gold} :
              LET r == extract_test(tests)
              IN  /\ r.raised = ListsTwice(tests)
                  /\ ~r.raised =>
                        /\ r.passed \cap r.failed = {}
                        /\ r.passed \cup r.failed = ReportedNames(tests)
                        /\ r.failed = OtherNames(tests)
        /\ res.raised = (\E tests \in {dct_test_before, dct_test_after, dct_test_gold} :
                            ListsTwice(tests))
        /\ ~res.raised =>
              /\ res.PASS_TO_PASS \cap res.FAIL_TO_PASS = {}
              /\ res.PASS_TO_PASS \cup res.FAIL_TO_PASS = ReportedNames(dct_test_gold)

\* a gold report with a passed, a failed and a skipped test was split
C33_Witness ==
    /\ Returned
    /\ res.PASS_TO_PASS = {"t1"}
    /\ res.FAIL_TO_PASS = {"t2", "new_test"}
    /\ \E i \in DOMAIN dct_test_gold : dct_test_gold[i].outcome = "skipped"

\* an after report listing t1 twice made the call fail its assertion
C33_WitnessTwice ==
    /\ cpc = "returned"
    /\ res.raised
    /\ ListsTwice(dct_test_after)

(***************************************************************************)
(* Report parsers                                                          *)
(***************************************************************************)
MaxCount  == 2      \* largest count written in a report or a summary line
MaxSuites == 2      \* testsuite elements of one XML document
MaxEvents == 3      \* lines of a go test -json stream
MaxLines  == 2      \* lines of a cargo test JSON stream
MaxFiles  == 2      \* report files merged by one run

Counts == 0..MaxCount

\* a number a regular expression may or may not find: <<>> or <<n>>
Opt(S) == {<<>>} \cup {<<n>> : n \in S}
OrZero(m) == IF m = <<>> THEN 0 ELSE m[1]

Summary(total, passed, failed, skipped, errors, collected) ==
    [total |-> total, passed |-> passed, failed |-> failed, skipped |-> skipped,
     errors |-> errors, collected |-> collected]

\* a report dict: its summary, which of the keys "errors" and "collected"
\* the summary has (an absent key reads 0), and its status ("absent" when
\* the dict has no "status" key)
Report(summary, keys, status) ==
    [kind |-> "report", summary |-> summary, keys |-> keys, status |-> status]

\* the empty dict {}
EmptyDict == [kind |-> "empty", summary |-> Summary(0, 0, 0, 0, 0, 0), keys |-> {}, status |-> "absent"]

\* the parser raised KeyError
KeyErrorRaised == [kind |-> "raised", summary |-> Summary(0, 0, 0, 0, 0, 0), keys |-> {}, status |-> "absent"]

\* the content of a report file
NoFile          == [fmt |-> "missing", body |-> <<>>]
Garbage         == [fmt |-> "text", body |-> <<>>]     \* neither JSON nor well-formed XML
XmlFile(suites) == [fmt |-> "xml", body |-> suites]
JsonLines(evs)  == [fmt |-> "ndjson", body |-> evs]
JestJson(data)  == [fmt |-> "jest", body |-> <<data>>]

\* a testsuite element: its tests, failures, errors and skipped attributes,
\* as a JUnit writer produces them
SuitesUpTo(n) ==
    {s \in [tests : 0..n, failures : 0..n, errors : 0..n, skipped : 0..n] :
        s.failures + s.errors + s.skipped <= s.tests}

Suite == SuitesUpTo(MaxCount)

\* the XML documents of at most n testsuite elements
XmlFiles(n)    == {XmlFile(suites) : suites \in SeqsUpTo(Suite, n)}
SingleXmlFiles == {XmlFile(<<s>>) : s \in Suite}

RECURSIVE SumOver(_, _)
SumOver(seq, key) ==
    IF seq = <<>> THEN 0 ELSE Head(seq)[key] + SumOver(Tail(seq), key)

\* the loop over the testsuite elements and the passed count after it
junit_totals_by_testcase(suites) ==
    LET total   == SumOver(suites, "testcases")
        failed  == SumOver(suites, "failures")
        errors  == SumOver(suites, "errors")
        skipped == SumOver(suites, "skipped")
    IN  Summary(total, total - failed - errors - skipped, failed, skipped, errors, 0)
junit_totals(suites) ==
    LET total   == SumOver(suites, "tests")
        failed  == SumOver(suites, "failures")
        errors  == SumOver(suites, "errors")
        skipped == SumOver(suites, "skipped")
    IN  Summary(total, total - failed - errors - skipped, failed, skipped, errors, 0)

\* ---- golang.py ----
\* a line of go test -json: Package, Test ("" for a package event), Action
GoEvent == [Package : {"pkg"}, Test : {"", "TestA", "TestB"},
            Action : {"pass", "fail", "skip", "output", "run"}]

\* the report files of at most n lines
GoFiles(n) == {NoFile, Garbage} \cup XmlFiles(MaxSuites)
                  \cup {JsonLines(evs) : evs \in SeqsUpTo(GoEvent, n) \ {<<>>}}

RECURSIVE go_json_loop(_, _, _)
go_json_loop(lines, i, summary) ==
    IF i > Len(lines) THEN summary
    ELSE LET event == lines[i]
         IN  IF event.Test = "" THEN go_json_loop(lines, i + 1, summary)
             ELSE IF event.Action = "pass"
             THEN go_json_loop(lines, i + 1, [summary EXCEPT !.passed = @ + 1, !.total = @ + 1])
             ELSE IF event.Action = "fail"
             THEN go_json_loop(lines, i + 1, [summary EXCEPT !.failed = @ + 1, !.total = @ + 1])
             ELSE IF event.Action = "skip"
             THEN go_json_loop(lines, i + 1, [summary EXCEPT !.skipped = @ + 1, !.total = @ + 1])
             ELSE go_json_loop(lines, i + 1, summary)

\* the tests dict of _parse_go_json: the status of each "<package>/<test>"
\* seen so far
RECURSIVE go_tests_loop(_, _, _)
go_tests_loop(lines, i, tests) ==
    IF i > Len(lines) THEN tests
    ELSE LET event    == lines[i]
             test_key == <<event.Package, event.Test>>
             known    == IF test_key \in DOMAIN tests THEN tests
                         ELSE tests @@ (test_key :> "unknown")
         IN  IF event.Test = "" THEN go_tests_loop(lines, i + 1, tests)
             ELSE IF event.Action = "pass"
             THEN go_tests_loop(lines, i + 1, [known EXCEPT ![test_key] = "passed"])
             ELSE IF event.Action = "fail"
             THEN go_tests_loop(lines, i + 1, [known EXCEPT ![test_key] = "failed"])
             ELSE IF event.Action = "skip"
             THEN go_tests_loop(lines, i + 1, [known EXCEPT ![test_key] = "skipped"])
             ELSE go_tests_loop(lines, i + 1, known)

Reversed(lines) == [i \in DOMAIN lines |-> lines[Len(lines) + 1 - i]]

\* a slip: the events are read from the last line to the first
_parse_go_json_backwards(lines) ==
    LET summary == go_json_loop(lines, 1, Summary(0, 0, 0, 0, 0, 0))
    IN  [kind |-> "report", summary |-> summary, keys |-> {"errors"},
         status |-> IF summary.failed = 0 /\ summary.total > 0 THEN "passed"
                    ELSE IF summary.failed > 0 THEN "failed" ELSE "unknown",
         tests |-> go_tests_loop(Reversed(lines), 1, <<>>)]

_parse_go_json(lines) ==
    LET summary == go_json_loop(lines, 1, Summary(0, 0, 0, 0, 0, 0))
    IN  [kind |-> "report", summary |-> summary, keys |-> {"errors"},
         status |-> IF summary.failed = 0 /\ summary.total > 0 THEN "passed"
                    ELSE IF summary.failed > 0 THEN "failed" ELSE "unknown",
         tests |-> go_tests_loop(lines, 1, <<>>)]

parse_go_test_report(file) ==
    IF file.fmt = "missing" THEN EmptyDict
    ELSE IF file.fmt = "ndjson" THEN _parse_go_json(file.body)
    ELSE IF file.fmt = "xml"
    THEN LET summary == junit_totals(file.body)
         IN  Report(summary, {"errors"},
                    IF summary.failed + summary.errors = 0 THEN "passed" ELSE "failed")
    ELSE EmptyDict

\* ---- kotlin.py ----
StatusOf(summary) ==
    IF summary.total > 0
    THEN (IF summary.failed + summary.errors > 0 THEN "failed" ELSE "passed")
    ELSE "unknown"

parse_junit_xml_report(file) ==
    IF file.fmt = "missing" THEN EmptyDict
    ELSE IF file.fmt = "xml"
    THEN LET counted == junit_totals(file.body)
             summary == [counted EXCEPT !.collected = counted.total]
         IN  Report(summary, {"errors", "collected"}, StatusOf(summary))
    ELSE EmptyDict

RECURSIVE AddSummaries(_)
AddSummaries(reports) ==
    IF reports = <<>> THEN Summary(0, 0, 0, 0, 0, 0)
    ELSE LET rest == AddSummaries(Tail(reports))
             head == Head(reports).summary
         IN  Summary(head.total + rest.total, head.passed + rest.passed,
                     head.failed + rest.failed, head.skipped + rest.skipped,
                     head.errors + rest.errors, 0)

KotlinMergeReports(reports) ==
    IF reports = <<>>
    THEN Report(Summary(0, 0, 0, 0, 0, 0), {"errors", "collected"}, "unknown")
    ELSE LET added   == AddSummaries(reports)
             summary == [added EXCEPT !.collected = added.total]
         IN  Report(summary, {"errors", "collected"}, StatusOf(summary))

\* ---- javascript.py ----
\* the counters of a Jest --json result; Jest counts every test in exactly
\* one of passed, failed, pending and todo
JestData ==
    {d \in [numTotalTests : 0..(4 * MaxCount), numPassedTests : Counts, numFailedTests : Counts,
            numPendingTests : Counts, numTodoTests : Counts] :
        d.numTotalTests = d.numPassedTests + d.numFailedTests + d.numPendingTests + d.numTodoTests}

JsFiles(n)    == {NoFile, Garbage} \cup XmlFiles(n) \cup {JestJson(d) : d \in JestData}
SingleJsFiles == SingleXmlFiles \cup {JestJson(d) : d \in JestData}

_parse_jest_json(data) ==
    LET summary == Summary(data.numTotalTests, data.numPassedTests, data.numFailedTests,
                           data.numPendingTests, 0, 0)
    IN  Report(summary, {"errors"}, IF summary.failed = 0 THEN "passed" ELSE "failed")

parse_javascript_test_report(file) ==
    IF file.fmt = "missing" THEN EmptyDict
    ELSE IF file.fmt = "jest" THEN _parse_jest_json(file.body[1])
    ELSE IF file.fmt = "xml"
    THEN LET summary == junit_totals(file.body)
         IN  Report(summary, {"errors"},
                    IF summary.failed + summary.errors = 0 THEN "passed" ELSE "failed")
    ELSE EmptyDict

JavaScriptMergeReports(reports) ==
    IF reports = <<>> THEN EmptyDict
    ELSE LET summary == AddSummaries(reports)
         IN  Report(summary, {"errors"},
                    IF summary.failed + summary.errors = 0 /\ summary.total > 0
                    THEN "passed" ELSE "failed")

\* ---- rust.py ----
\* a line of cargo test's JSON stream: a test event, or a suite result with
\* its counters (a suite is "ok" exactly when none of its tests failed)
RustEvent ==
    [type : {"test"}, event : {"started", "ok", "failed", "ignored"},
     passed : {0}, failed : {0}, ignored : {0}]
    \cup {e \in [type : {"suite"}, event : {"ok", "failed"},
                 passed : Counts, failed : Counts, ignored : Counts] :
            (e.event = "ok") = (e.failed = 0)}

\* the report files of at most n lines
RustFiles(n) == {NoFile, Garbage} \cup XmlFiles(MaxSuites)
                    \cup {JsonLines(evs) : evs \in SeqsUpTo(RustEvent, n) \ {<<>>}}

\* the loop of _parse_rust_json: the summary and the length of result["tests"]
RECURSIVE rust_json_loop(_, _, _, _)
rust_json_loop(lines, i, summary, ntests) ==
    IF i > Len(lines) THEN [summary |-> summary, ntests |-> ntests]
    ELSE LET data == lines[i]
         IN  IF data.type = "test"
             THEN IF data.event = "ok"
                  THEN rust_json_loop(lines, i + 1, [summary EXCEPT !.passed = @ + 1], ntests + 1)
                  ELSE IF data.event = "failed"
                  THEN rust_json_loop(lines, i + 1, [summary EXCEPT !.failed = @ + 1], ntests + 1)
                  ELSE IF data.event = "ignored"
                  THEN rust_json_loop(lines, i + 1, [summary EXCEPT !.skipped = @ + 1], ntests + 1)
                  ELSE rust_json_loop(lines, i + 1, summary, ntests)
             ELSE IF data.event \in {"ok", "failed"}
                  THEN rust_json_loop(lines, i + 1,
                           [summary EXCEPT !.total = data.passed + data.failed + data.ignored,
                                           !.passed = data.passed, !.failed = data.failed,
                                           !.skipped = data.ignored], ntests)
                  ELSE rust_json_loop(lines, i + 1, summary, ntests)

_parse_rust_json(lines) ==
    LET looped  == rust_json_loop(lines, 1, Summary(0, 0, 0, 0, 0, 0), 0)
        summary == IF looped.summary.total = 0 /\ looped.ntests > 0
                   THEN [looped.summary EXCEPT !.total = looped.ntests]
                   ELSE looped.summary
    IN  Report(summary, {"errors"},
               IF summary.failed = 0 /\ summary.total > 0 THEN "passed"
               ELSE IF summary.failed > 0 THEN "failed" ELSE "unknown")

parse_rust_test_report(file) ==
    IF file.fmt = "missing" THEN EmptyDict
    ELSE IF file.fmt = "ndjson" THEN _parse_rust_json(file.body)
    ELSE IF file.fmt = "xml"
    THEN LET summary == junit_totals(file.body)
         IN  Report(summary, {"errors"},
                    IF summary.failed + summary.errors = 0 THEN "passed" ELSE "failed")
    ELSE EmptyDict

\* ---- parsers/python/javascript_stout.py ----
\* what the regular expressions of parse_mocha_stdout find in the text
MochaOut == [passing : Opt(Counts), failing : Opt(Counts), pending : Opt(Counts)]

StdoutStatus(summary) ==
    IF summary.passed > 0 /\ summary.failed = 0 THEN "passed"
    ELSE IF summary.passed = 0 THEN "failed"
    ELSE "unknown"

parse_mocha_stdout(s) ==
    LET passed  == OrZero(s.passing)
        failed  == OrZero(s.failing)
        summary == Summary(passed + failed, passed, failed, OrZero(s.pending), 0, 0)
    IN  Report(summary, {}, StdoutStatus(summary))

\* the "Tests:" line of Jest, when the text has one: the counts it lists
\* and its total, which Jest prints last and which also counts todo tests
JestLine ==
    {l \in [failed : Opt(Counts), passed : Opt(Counts), skipped : Opt(Counts),
            total : Opt(0..(4 * MaxCount))] :
        /\ l.total # <<>>
        /\ OrZero(l.total) - (OrZero(l.failed) + OrZero(l.passed) + OrZero(l.skipped)) \in Counts}

JestOut == Opt(JestLine)

parse_jest_stdout(s) ==
    IF s = <<>> THEN KeyErrorRaised
    ELSE LET l == s[1]
             summary == Summary(OrZero(l.total), OrZero(l.passed), OrZero(l.failed),
                                OrZero(l.skipped), 0, 0)
         IN  Report(summary, {}, StdoutStatus(summary))

(***************************************************************************)
(* The parsers, each called once on an input it can be given               *)
(***************************************************************************)
InitParse ==
    /\ IdleParse
    /\ IdleHandle
    /\ IdleMore
    /\ IdleCorrect
    /\ IdleTask

Parsed(name, input, result) ==
    /\ parser' = name
    /\ pinput' = input
    /\ report' = result
    /\ UNCHANGED <<varsCorrect, varsTask, varsHandle, varsMore>>

ParseGoTestReport ==
    /\ parser = "none"
    /\ \E file \in GoFiles(MaxEvents) : Parsed("parse_go_test_report", file, parse_go_test_report(file))

ParseJunitXmlReport ==
    /\ parser = "none"
    /\ \E file \in {NoFile, Garbage} \cup XmlFiles(MaxSuites) :
          Parsed("parse_junit_xml_report", file, parse_junit_xml_report(file))

ParseJavascriptTestReport ==
    /\ parser = "none"
    /\ \E file \in JsFiles(MaxSuites) :
          Parsed("parse_javascript_test_report", file, parse_javascript_test_report(file))

ParseRustTestReport ==
    /\ parser = "none"
    /\ \E file \in RustFiles(MaxLines) : Parsed("parse_rust_test_report", file, parse_rust_test_report(file))

ParseMochaStdout ==
    /\ parser = "none"
    /\ \E s \in MochaOut : Parsed("parse_mocha_stdout", s, parse_mocha_stdout(s))

ParseJestStdout ==
    /\ parser = "none"
    /\ \E s \in JestOut : Parsed("parse_jest_stdout", s, parse_jest_stdout(s))

\* the reports run_test keeps: those with summary.total > 0
Kept(reports) == SelectSeq(reports, LAMBDA r : r.kind = "report" /\ r.summary.total > 0)

MapSeq(Op(_), seq) == [i \in DOMAIN seq |-> Op(seq[i])]

\* ---- parsers/python/pytest_stdout.py ----
\* stdout as the sequence of its "<number> <word>" phrases.  The last line
\* pytest prints names every outcome that happened at least once, "N errors"
\* and "N warnings" in the plural when N > 1; text printed before it can hold
\* such a phrase too.
PytestRuns ==
    [passed : Counts, failed : Counts, error : Counts, skipped : Counts,
     xfailed : 0..1, xpassed : 0..1, warning : 0..1]

Phrase(n, singular, plural) ==
    IF n = 0 THEN <<>> ELSE <<[n |-> n, word |-> IF n > 1 THEN plural ELSE singular]>>

SummaryLine(r) ==
    Phrase(r.failed, "failed", "failed") \o Phrase(r.passed, "passed", "passed")
        \o Phrase(r.skipped, "skipped", "skipped") \o Phrase(r.xfailed, "xfailed", "xfailed")
        \o Phrase(r.xpassed, "xpassed", "xpassed") \o Phrase(r.warning, "warning", "warnings")
        \o Phrase(r.error, "error", "errors")

EarlierText == {<<>>, <<[n |-> 1, word |-> "failed"]>>, <<[n |-> 2, word |-> "passed"]>>}

PytestStdouts == {early \o SummaryLine(r) : early \in EarlierText, r \in PytestRuns}

\* re.findall(r"\d+ %s" % key, s): the pattern matches a phrase whose word
\* starts with key; parse_single(lst[-1]) if lst else 0
LastCount(key, s) ==
    LET starts == IF key = "error" THEN {"error", "errors"}
                  ELSE IF key = "warning" THEN {"warning", "warnings"}
                  ELSE {key}
        lst    == {i \in DOMAIN s : s[i].word \in starts}
    IN  IF lst = {} THEN 0 ELSE s[CHOOSE i \in lst : \A j \in lst : j <= i].n

\* a slip: a run with failing tests is "failed" whether or not tests passed
parse_pytest_stdout_failed_first(s) ==
    LET summary == [passed  |-> LastCount("passed", s),  error   |-> LastCount("error", s),
                    failed  |-> LastCount("failed", s),  warning |-> LastCount("warning", s),
                    skipped |-> LastCount("skipped", s), xfailed |-> LastCount("xfailed", s),
                    xpassed |-> LastCount("xpassed", s),
                    total   |-> LastCount("passed", s) + LastCount("error", s)
                                    + LastCount("failed", s)]
        n_passed == summary.passed + summary.xpassed
        n_failed == summary.error + summary.failed + summary.xfailed
    IN  [kind |-> "pytest", summary |-> summary,
         status |-> IF n_failed > 0 THEN "failed"
                    ELSE IF n_passed > 0 THEN "passed"
                    ELSE "failed"]

parse_pytest_stdout(s) ==
    LET summary == [passed  |-> LastCount("passed", s),  error   |-> LastCount("error", s),
                    failed  |-> LastCount("failed", s),  warning |-> LastCount("warning", s),
                    skipped |-> LastCount("skipped", s), xfailed |-> LastCount("xfailed", s),
                    xpassed |-> LastCount("xpassed", s),
                    total   |-> LastCount("passed", s) + LastCount("error", s)
                                    + LastCount("failed", s)]
        n_passed == summary.passed + summary.xpassed
        n_failed == summary.error + summary.failed + summary.xfailed
    IN  [kind |-> "pytest", summary |-> summary,
         status |-> IF n_passed > 0 /\ n_failed = 0 THEN "passed"
                    ELSE IF n_passed = 0 THEN "failed"
                    ELSE "unknown"]

ParsePytestStdout ==
    /\ parser = "none"
    /\ \E s \in PytestStdouts : Parsed("parse_pytest_stdout", s, parse_pytest_stdout(s))

\* kotlin.py run_test: the reports of the XML files found, merged
MergeKotlinReports ==
    /\ parser = "none"
    /\ \E files \in SeqsUpTo(SingleXmlFiles, MaxFiles) :
          Parsed("KotlinDockerRepo._merge_reports", files,
                 KotlinMergeReports(Kept(MapSeq(parse_junit_xml_report, files))))

\* javascript.py run_test: the reports of the files in test-results, merged
MergeJavaScriptReports ==
    /\ parser = "none"
    /\ \E files \in SeqsUpTo(SingleJsFiles, MaxFiles) :
          Parsed("JavaScriptDockerRepo._merge_reports", files,
                 JavaScriptMergeReports(Kept(MapSeq(parse_javascript_test_report, files))))

NextParse ==
    \/ ParseGoTestReport
    \/ ParseJunitXmlReport
    \/ ParseJavascriptTestReport
    \/ ParseRustTestReport
    \/ ParseMochaStdout
    \/ ParseJestStdout
    \/ ParsePytestStdout
    \/ MergeKotlinReports
    \/ MergeJavaScriptReports

SpecParse == InitParse /\ [][NextParse]_vars

\* the two parsers of line streams on their own: the events of go test -json
\* and the output of pytest
NextStreams ==
    \/ ParseGoTestReport
    \/ ParsePytestStdout

SpecStreams == InitParse /\ [][NextStreams]_vars

\* the errors count of a summary (0 when the summary has no "errors" key)
HasCounts == report.kind = "report" /\ report.summary.total > 0

\* C2: a report with total > 0 has passed + failed + errors + skipped = total,
\* whichever parser or _merge_reports produced it.
C2_CountsAddUp ==
    HasCounts =>
        report.summary.passed + report.summary.failed + report.summary.errors
            + report.summary.skipped = report.summary.total

\* C3: a report with total > 0 has status "failed" exactly when
\* failed + errors > 0.
C3_FailedIff ==
    HasCounts =>
        ((report.status = "failed") <=> (report.summary.failed + report.summary.errors > 0))

GoTerminal == {"pass", "fail", "skip"}

GoStatusName(action) ==
    IF action = "pass" THEN "passed" ELSE IF action = "fail" THEN "failed" ELSE "skipped"

\* C30: in the report _parse_go_json makes of a stream of events, each count
\* is the number of events that name a test and have the Action it counts
\* (pass, fail, skip), total is their sum, so that run and output events and
\* events without a Test change no count; and the entry of each test named
\* has the status of the last pass, fail or skip event of that test.
C30_GoEvents ==
    (parser = "parse_go_test_report" /\ pinput.fmt = "ndjson") =>
        LET lines     == pinput.body
            Of(a)     == Cardinality({i \in DOMAIN lines : lines[i].Test # "" /\ lines[i].Action = a})
            Ended(k)  == {i \in DOMAIN lines : /\ <<lines[i].Package, lines[i].Test>> = k
                                                /\ lines[i].Action \in GoTerminal}
            Last(k)   == CHOOSE i \in Ended(k) : \A j \in Ended(k) : j <= i
            named     == {<<lines[i].Package, lines[i].Test>> :
                             i \in {j \in DOMAIN lines : lines[j].Test # ""}}
        IN  /\ report.summary.passed = Of("pass")
            /\ report.summary.failed = Of("fail")
            /\ report.summary.skipped = Of("skip")
            /\ report.summary.errors = 0
            /\ report.summary.total = Of("pass") + Of("fail") + Of("skip")
            /\ DOMAIN report.tests = named
            /\ \A k \in named :
                  report.tests[k] = IF Ended(k) = {} THEN "unknown"
                                    ELSE GoStatusName(lines[Last(k)].Action)

\* the events of a test that failed, was run again and passed were parsed
C30_Witness ==
    /\ parser = "parse_go_test_report" /\ pinput.fmt = "ndjson"
    /\ pinput.body = <<[Package |-> "pkg", Test |-> "TestA", Action |-> "fail"],
                       [Package |-> "pkg", Test |-> "TestA", Action |-> "run"],
                       [Package |-> "pkg", Test |-> "TestA", Action |-> "pass"]>>
    /\ report.tests[<<"pkg", "TestA">>] = "passed"
    /\ report.summary.total = 2

\* C39: for any stream of go test events, summary.total of _parse_go_json
\* is the number of entries of tests with status passed, failed or skipped:
\* a test with several pass, fail or skip events counts once, a test with
\* none does not count.
C39_TotalIsEndedTests ==
    (parser = "parse_go_test_report" /\ pinput.fmt = "ndjson") =>
        report.summary.total =
            Cardinality({k \in DOMAIN report.tests :
                            report.tests[k] \in {"passed", "failed", "skipped"}})

\* C23: the status parse_pytest_stdout reports is "passed" exactly when
\* passed + xpassed > 0 and error + failed + xfailed = 0 in its summary,
\* "failed" exactly when passed + xpassed = 0, and "unknown" whenever the
\* run has passing and failing tests; the output of a run with 2 passed and
\* 2 failed tests gives "unknown" with total 4.
C23_PytestStatus ==
    parser = "parse_pytest_stdout" =>
        LET n_passed == report.summary.passed + report.summary.xpassed
            n_failed == report.summary.error + report.summary.failed + report.summary.xfailed
        IN  /\ (report.status = "passed") <=> (n_passed > 0 /\ n_failed = 0)
            /\ (report.status = "failed") <=> (n_passed = 0)
            /\ (n_passed > 0 /\ n_failed > 0) => report.status = "unknown"
            /\ pinput = <<[n |-> 2, word |-> "failed"], [n |-> 2, word |-> "passed"]>>
                   => (report.status = "unknown" /\ report.summary.total = 4)

\* the output of a run with 2 passed and 2 failed tests was parsed
C23_Witness ==
    /\ parser = "parse_pytest_stdout"
    /\ pinput = <<[n |-> 2, word |-> "failed"], [n |-> 2, word |-> "passed"]>>
    /\ report.status = "unknown"

(***************************************************************************)
(* The JUnit XML parsers on documents with testcase elements               *)
(***************************************************************************)
MaxCases == 1       \* testcase elements of one testsuite element

\* a testsuite element with its attributes and the number of testcase
\* elements under it; nothing ties the two together in the document
CaseSuites ==
    {s \in [tests : Counts, failures : Counts, errors : Counts, skipped : Counts,
            testcases : 0..MaxCases] :
        s.failures + s.errors + s.skipped <= s.tests}

\* result["tests"]: one entry appended per testcase element
junit_tests(suites) == SumOver(suites, "testcases")

WithTests(rep, n) ==
    [kind |-> rep.kind, summary |-> rep.summary, keys |-> rep.keys,
     status |-> rep.status, ntests |-> n]

KotlinParseJunitXml ==
    /\ parser = "none"
    /\ \E n \in 0..MaxSuites : \E suites \in [1..n -> CaseSuites] :
          Parsed("parse_junit_xml_report", XmlFile(suites),
                 WithTests(parse_junit_xml_report(XmlFile(suites)), junit_tests(suites)))

GoParseJunitXml ==
    /\ parser = "none"
    /\ \E n \in 0..MaxSuites : \E suites \in [1..n -> CaseSuites] :
          Parsed("parse_go_test_report", XmlFile(suites),
                 WithTests(parse_go_test_report(XmlFile(suites)), junit_tests(suites)))

NextJunit ==
    \/ KotlinParseJunitXml
    \/ GoParseJunitXml

SpecJunit == InitParse /\ [][NextJunit]_vars

\* C31: the JUnit XML parsers return total, failed, errors and skipped as the
\* sums of the tests, failures, errors and skipped attributes of the
\* testsuite elements and passed = total - failed - errors - skipped,
\* whatever the number of testcase elements in the document.
C31_AttributeSums ==
    (parser \in {"parse_junit_xml_report", "parse_go_test_report"} /\ pinput.fmt = "xml") =>
        /\ report.summary.total = SumOver(pinput.body, "tests")
        /\ report.summary.failed = SumOver(pinput.body, "failures")
        /\ report.summary.errors = SumOver(pinput.body, "errors")
        /\ report.summary.skipped = SumOver(pinput.body, "skipped")
        /\ report.summary.passed = report.summary.total - report.summary.failed
                                      - report.summary.errors - report.summary.skipped

\* two testsuite elements announcing 3 tests in all, 1 failed and 1 skipped,
\* with a single testcase element between them
C31_Witness ==
    /\ parser = "parse_junit_xml_report"
    /\ pinput.fmt = "xml"
    /\ Len(pinput.body) = 2
    /\ report.ntests = 1
    /\ report.summary.total = 3
    /\ report.summary.failed = 1
    /\ report.summary.skipped = 1
    /\ report.summary.passed = 1

(***************************************************************************)
(* _parse_rust_json on the stream of a cargo test run of several binaries  *)
(***************************************************************************)
MaxBinaries == 2    \* test binaries of one cargo test run

RustTestLine(event) == [type |-> "test", event |-> event, passed |-> 0, failed |-> 0, ignored |-> 0]

CountOf(events, e) == Cardinality({i \in DOMAIN events : events[i] = e})

\* what one test binary prints: a line per test, then its suite result
BinaryLines(events) ==
    [i \in DOMAIN events |-> RustTestLine(events[i])]
    \o <<[type |-> "suite", event |-> IF CountOf(events, "failed") = 0 THEN "ok" ELSE "failed",
          passed |-> CountOf(events, "ok"), failed |-> CountOf(events, "failed"),
          ignored |-> CountOf(events, "ignored")]>>

RECURSIVE CargoStream(_)
CargoStream(binaries) ==
    IF binaries = <<>> THEN <<>>
    ELSE BinaryLines(Head(binaries)) \o CargoStream(Tail(binaries))

ParseCargoStream ==
    /\ parser = "none"
    /\ \E n \in 1..MaxBinaries :
          \E binaries \in [1..n -> SeqsUpTo({"ok", "failed", "ignored"}, MaxLines)] :
             LET lines == CargoStream(binaries)
             IN  Parsed("_parse_rust_json", JsonLines(lines),
                        WithTests(_parse_rust_json(lines),
                                  rust_json_loop(lines, 1, Summary(0, 0, 0, 0, 0, 0), 0).ntests))

NextCargo == ParseCargoStream

SpecCargo == InitParse /\ [][NextCargo]_vars

SuiteLines(lines) == SelectSeq(lines, LAMBDA l : l.type = "suite")

\* C37: for a cargo stream with the suite results of several test binaries,
\* the summary of _parse_rust_json has total, passed, failed and skipped
\* equal to the sums over the suite results, and total is the number of
\* entries of tests.
C37_SuiteSums ==
    parser = "_parse_rust_json" =>
        LET suites == SuiteLines(pinput.body)
        IN  /\ report.summary.passed = SumOver(suites, "passed")
            /\ report.summary.failed = SumOver(suites, "failed")
            /\ report.summary.skipped = SumOver(suites, "ignored")
            /\ report.summary.total = SumOver(suites, "passed") + SumOver(suites, "failed")
                                         + SumOver(suites, "ignored")
            /\ report.summary.total = report.ntests

(***************************************************************************)
(* Docker repository handles: build_env and run_test                       *)
(***************************************************************************)
MaxCalls == 2       \* operations called on one handle

CommitRetries == 3  \* _commit_container_image(retries=3)

Langs == {"go", "kotlin", "cpp", "ruby", "typescript", "javascript", "rust", "scala"}

\* how the command given to timeout_exec_run ends: it exits with status 0 or
\* 1 within the deadline, exceeds the deadline, or the container runtime fails
ExecOutcomes == {"rc0", "rc1", "timeout", "error"}
Rc(outcome) == IF outcome = "rc0" THEN 0 ELSE 1

NoContainer == [state |-> "none", image |-> "none"]

\* AbstractDockerRepo.start_container: a running container from image_name
StartContainer(hd) ==
    [hd EXCEPT !.container = [state |-> "running", image |-> hd.image_name]]

\* AbstractDockerRepo.stop_container
StopContainer(hd) == [hd EXCEPT !.container = [@ EXCEPT !.state = "stopped"]]

\* what an operation leaves: the handle, the exception it raised ("none"
\* when it returned), whether it committed the container as the image
Outcome(hd, raised, committed) ==
    [h |-> hd, raised |-> raised, committed |-> committed, tried |-> <<>>, sleeps |-> 0]

\* what container.commit does at each attempt, should it be made
CommitResults == [1..CommitRetries -> {"ok", "APIError"}]

\* for attempt in range(retries): commit and return, or on APIError re-raise
\* at the last attempt and sleep(delay) otherwise; `attempt` counts from 0
RECURSIVE commit_loop(_, _, _, _)
commit_loop(attempt, commits, tried, slept) ==
    IF attempt >= CommitRetries
    THEN [raised |-> "none", committed |-> FALSE, tried |-> tried, sleeps |-> slept]
    ELSE LET made == Append(tried, commits[attempt + 1])
         IN  IF commits[attempt + 1] = "ok"
             THEN [raised |-> "none", committed |-> TRUE, tried |-> made, sleeps |-> slept]
             ELSE IF attempt = CommitRetries - 1
             THEN [raised |-> "APIError", committed |-> FALSE, tried |-> made, sleeps |-> slept]
             ELSE commit_loop(attempt + 1, commits, made, slept + 1)

\* a slip: the APIError of the last attempt is dropped like the others
_commit_container_image_no_reraise(hd, commits) ==
    LET c == commit_loop(0, commits, <<>>, 0)
    IN  [h |-> IF c.committed THEN [hd EXCEPT !.image_built = TRUE, !.image_name = "built"] ELSE hd,
         raised |-> "none", committed |-> c.committed,
         tried |-> c.tried, sleeps |-> c.sleeps]

\* _commit_container_image: image_name becomes default_image_name at the
\* first attempt that succeeds
_commit_container_image(hd, commits) ==
    LET c == commit_loop(0, commits, <<>>, 0)
    IN  [h |-> IF c.committed THEN [hd EXCEPT !.image_built = TRUE, !.image_name = "built"] ELSE hd,
         raised |-> c.raised, committed |-> c.committed,
         tried |-> c.tried, sleeps |-> c.sleeps]

\* try: timeout_exec_run(build command); except TimeOutException:
\* return_code = 2, _FALL_WITH_TIMEOUT_EXCEPTION = True (golang.py 242-252)
BuildCommand(hd, outcome) ==
    IF outcome = "timeout" THEN [hd EXCEPT !.return_code = 2, !._FALL_WITH_TIMEOUT_EXCEPTION = TRUE]
    ELSE IF outcome = "error" THEN hd
    ELSE [hd EXCEPT !.return_code = Rc(outcome)]

\* if commit_image: commit; if stop_container: stop; return (golang.py 256-261,
\* push_image left at its default False)
CommitStopReturn(hd, commit_image, stop_container, commits) ==
    LET c == IF commit_image THEN _commit_container_image(hd, commits) ELSE Outcome(hd, "none", FALSE)
    IN  IF c.raised # "none" THEN c
        ELSE [c EXCEPT !.h = IF stop_container THEN StopContainer(c.h) ELSE c.h]

\* a slip: the image is committed before the timeout flag is looked at
GoLang_build_env_commit_first(hd, outcome, commit_image, stop_container, commits) ==
    LET ran == BuildCommand(StartContainer(hd), outcome)
        c   == CommitStopReturn(ran, commit_image, stop_container, commits)
    IN  IF outcome = "error" THEN Outcome(ran, "DockerException", FALSE)
        ELSE IF c.raised # "none" THEN c
        ELSE IF ran._FALL_WITH_TIMEOUT_EXCEPTION THEN [c EXCEPT !.raised = "TimeOutException"]
        ELSE c

\* GoLangDockerRepo.build_env; the install of go-junit-report before the
\* build command swallows every exception and leaves nothing behind
GoLang_build_env(hd, outcome, commit_image, stop_container, commits) ==
    LET ran == BuildCommand(StartContainer(hd), outcome)
    IN  IF outcome = "error" THEN Outcome(ran, "DockerException", FALSE)
        ELSE IF ran._FALL_WITH_TIMEOUT_EXCEPTION THEN Outcome(ran, "TimeOutException", FALSE)
        ELSE CommitStopReturn(ran, commit_image, stop_container, commits)

\* RubyDockerRepo.build_env: _configure_test_reporters (every exception
\* swallowed), then the statements of the Go build_env
Ruby_build_env(hd, outcome, commit_image, stop_container, commits) ==
    LET ran == BuildCommand(StartContainer(hd), outcome)
    IN  IF outcome = "error" THEN Outcome(ran, "DockerException", FALSE)
        ELSE IF ran._FALL_WITH_TIMEOUT_EXCEPTION THEN Outcome(ran, "TimeOutException", FALSE)
        ELSE CommitStopReturn(ran, commit_image, stop_container, commits)

\* JavaScriptDockerRepo.build_env: the reporter configuration (every
\* exception swallowed), then the same statements
JavaScript_build_env(hd, outcome, commit_image, stop_container, commits) ==
    LET ran == BuildCommand(StartContainer(hd), outcome)
    IN  IF outcome = "error" THEN Outcome(ran, "DockerException", FALSE)
        ELSE IF ran._FALL_WITH_TIMEOUT_EXCEPTION THEN Outcome(ran, "TimeOutException", FALSE)
        ELSE CommitStopReturn(ran, commit_image, stop_container, commits)

\* RustDockerRepo.build_env: the test-tool installation (every exception
\* swallowed), then the same statements
Rust_build_env(hd, outcome, commit_image, stop_container, commits) ==
    LET ran == BuildCommand(StartContainer(hd), outcome)
    IN  IF outcome = "error" THEN Outcome(ran, "DockerException", FALSE)
        ELSE IF ran._FALL_WITH_TIMEOUT_EXCEPTION THEN Outcome(ran, "TimeOutException", FALSE)
        ELSE CommitStopReturn(ran, commit_image, stop_container, commits)

\* ScalaDockerRepo.build_env: _ensure_nodejs (every exception swallowed),
\* return_code read from the result of the build command
Scala_build_env(hd, outcome, commit_image, stop_container, commits) ==
    LET ran == BuildCommand(StartContainer(hd), outcome)
    IN  IF outcome = "error" THEN Outcome(ran, "DockerException", FALSE)
        ELSE IF ran._FALL_WITH_TIMEOUT_EXCEPTION THEN Outcome(ran, "TimeOutException", FALSE)
        ELSE CommitStopReturn(ran, commit_image, stop_container, commits)

\* TypeScriptDockerRepo.build_env: after the build command return_code
\* becomes 0 when the output reads "added ... packages" or "audited ...
\* packages" (npm_done)
TypeScript_build_env(hd, outcome, commit_image, stop_container, commits, npm_done) ==
    LET ran  == BuildCommand(StartContainer(hd), outcome)
        seen == IF npm_done THEN [ran EXCEPT !.return_code = 0] ELSE ran
    IN  IF outcome = "error" THEN Outcome(ran, "DockerException", FALSE)
        ELSE IF ran._FALL_WITH_TIMEOUT_EXCEPTION THEN Outcome(ran, "TimeOutException", FALSE)
        ELSE CommitStopReturn(seen, commit_image, stop_container, commits)

\* KotlinDockerRepo.build_env: on the timeout path the container is stopped
\* before the raise; the image is committed only when return_code is 0
Kotlin_build_env(hd, outcome, commit_image, stop_container, commits) ==
    LET ran == BuildCommand(StartContainer(hd), outcome)
    IN  IF outcome = "error" THEN Outcome(ran, "DockerException", FALSE)
        ELSE IF ran._FALL_WITH_TIMEOUT_EXCEPTION
        THEN Outcome(IF stop_container THEN StopContainer(ran) ELSE ran, "TimeOutException", FALSE)
        ELSE CommitStopReturn(ran, commit_image /\ ran.return_code = 0, stop_container, commits)

\* CppDockerRepo.build_env: the timeout is re-raised inside the except
\* clause without setting the flag; afterwards a listing of the build
\* directory (verified: its exec fails, exits 0 or 1, or shows more than
\* three entries) overwrites return_code
Cpp_build_env(hd, outcome, commit_image, stop_container, commits, verified) ==
    LET started == StartContainer(hd)
        ran     == IF outcome \in {"rc0", "rc1"} THEN [started EXCEPT !.return_code = Rc(outcome)]
                   ELSE IF outcome = "timeout" THEN [started EXCEPT !.return_code = 2]
                   ELSE started
        checked == IF verified = "error" THEN ran
                   ELSE IF verified = "many" THEN [ran EXCEPT !.return_code = 0]
                   ELSE [ran EXCEPT !.return_code = Rc(verified)]
    IN  IF outcome = "error" THEN Outcome(ran, "DockerException", FALSE)
        ELSE IF outcome = "timeout" THEN Outcome(ran, "TimeOutException", FALSE)
        ELSE CommitStopReturn(checked, commit_image, stop_container, commits)

(***************************************************************************)
(* run_test: the report files a test command leaves in the working folder  *)
(***************************************************************************)
\* testsuite elements of the report files written by a run
OnePassed == [tests |-> 1, failures |-> 0, errors |-> 0, skipped |-> 0]
OneFailed == [tests |-> 1, failures |-> 1, errors |-> 0, skipped |-> 0]

\* lines of a go test -json stream written by a run
GoLine(action) == [Package |-> "pkg", Test |-> "TestA", Action |-> action]

\* the result of an operation that returned: _format_results
Returning(hd, rep, parsed) ==
    [h |-> hd, raised |-> "none", committed |-> FALSE, tried |-> <<>>, sleeps |-> 0,
     report |-> rep, parser |-> parsed]

\* the result of an operation that raised
Raising(hd, exception) ==
    [h |-> hd, raised |-> exception, committed |-> FALSE, tried |-> <<>>, sleeps |-> 0,
     report |-> EmptyDict, parser |-> EmptyDict]

\* the default parser result of _format_results
DefaultResult(keys) == Report(Summary(0, 0, 0, 0, 0, 0), keys, "unknown")

\* try: timeout_exec_run(test command); except TimeOutException:
\* return_code = 2, _FALL_WITH_TIMEOUT_EXCEPTION = True (golang.py 298-316);
\* the command leaves the report files `written`
TestCommand(hd, outcome, written) ==
    IF outcome = "timeout"
    THEN [hd EXCEPT !.return_code = 2, !._FALL_WITH_TIMEOUT_EXCEPTION = TRUE, !.files = written]
    ELSE IF outcome = "error" THEN hd
    ELSE [hd EXCEPT !.return_code = Rc(outcome), !.files = written]

\* ---- golang.py ----
\* test-results/go-test.json (what tee saw), test-results/junit.xml (what
\* go-junit-report made of it), gotest_results.jsonl
GoFileStates ==
    [json  : {NoFile, Garbage, JsonLines(<<GoLine("pass")>>), JsonLines(<<GoLine("fail")>>)},
     xml   : {NoFile, XmlFile(<<>>), XmlFile(<<OnePassed>>)},
     jsonl : {NoFile, JsonLines(<<GoLine("pass")>>)}]

GoLang_format_results(hd, test_json) ==
    Returning(hd, test_json, IF test_json.kind = "report" THEN test_json ELSE DefaultResult({}))

GoLang_run_test(hd, outcome, written, stop_container) ==
    LET ran          == TestCommand(StartContainer(hd), outcome, written)
        from_json    == parse_go_test_report(ran.files.json)
        from_xml     == IF from_json.kind = "empty"
                        THEN parse_go_test_report(ran.files.xml) ELSE from_json
        test_results == IF from_xml.kind = "empty"
                        THEN parse_go_test_report(ran.files.jsonl) ELSE from_xml
        stopped      == IF stop_container /\ ~ran._FALL_WITH_TIMEOUT_EXCEPTION
                        THEN StopContainer(ran) ELSE ran
    IN  IF outcome = "error" THEN Raising(ran, "DockerException")
        ELSE GoLang_format_results(stopped, test_results)

\* ---- kotlin.py ----
\* two of the XML files _find_test_reports walks over
KotlinFileStates ==
    [first  : {NoFile, Garbage, XmlFile(<<OnePassed>>), XmlFile(<<OneFailed>>)},
     second : {NoFile, XmlFile(<<OnePassed>>)}]

\* the first line of stdout + stderr that reads "N tests completed[, F
\* failed][, S skipped]", when there is one
GradleConsoles ==
    {<<>>,
     <<[completed |-> 1, failed |-> <<>>, skipped |-> <<>>]>>,
     <<[completed |-> 1, failed |-> <<1>>, skipped |-> <<>>]>>}

parse_gradle_console_output(console) ==
    IF console = <<>> THEN Summary(0, 0, 0, 0, 0, 0)
    ELSE LET total   == console[1].completed
             failed  == OrZero(console[1].failed)
             skipped == OrZero(console[1].skipped)
         IN  Summary(total, total - failed - skipped, failed, skipped, 0, total)

Kotlin_format_results(hd, test_json) ==
    LET parser_result == IF test_json.summary.total > 0 THEN test_json
                         ELSE Report(Summary(0, 0, 0, 0, 0, 0), {"errors", "collected"},
                                     test_json.status)
    IN  Returning(hd, parser_result, parser_result)

\* a slip: the status the reports gave is returned as it is
StatusByReturnCode_kept(test_results, original_return_code) ==
    test_results

StatusByReturnCode(test_results, original_return_code) ==
    IF test_results.status \in {"passed", "failed"} THEN test_results
    ELSE [test_results EXCEPT
             !.status = IF original_return_code = 0 THEN "passed" ELSE "failed"]

\* KotlinDockerRepo.run_test: every exception of the test command is caught
\* (a timeout sets return_code 2 and the flag, any other sets return_code 1);
\* then the reports decide return_code and, failing them, the exit status
\* of the command decides the status
Kotlin_run_test(hd, outcome, written, console, stop_container) ==
    LET started == StartContainer(hd)
        ran     == IF outcome = "timeout"
                   THEN [started EXCEPT !.return_code = 2, !._FALL_WITH_TIMEOUT_EXCEPTION = TRUE,
                                        !.files = written]
                   ELSE IF outcome = "error" THEN [started EXCEPT !.return_code = 1]
                   ELSE [started EXCEPT !.return_code = Rc(outcome), !.files = written]
        original_return_code == IF outcome \in {"rc0", "rc1"} THEN Rc(outcome) ELSE 1
        parsed_reports == Kept(MapSeq(parse_junit_xml_report, <<ran.files.first, ran.files.second>>))
        merged         == KotlinMergeReports(parsed_reports)
        console_stats  == parse_gradle_console_output(console)
        test_results   == IF merged.summary.total = 0 /\ console_stats.total > 0
                          THEN Report(console_stats, {"errors", "collected"},
                                      IF console_stats.failed > 0 \/ console_stats.errors > 0
                                      THEN "failed" ELSE "passed")
                          ELSE merged
        coded   == IF test_results.status = "passed" THEN [ran EXCEPT !.return_code = 0]
                   ELSE IF test_results.status = "failed" THEN [ran EXCEPT !.return_code = 1]
                   ELSE [ran EXCEPT !.return_code = original_return_code]
        decided == StatusByReturnCode(test_results, original_return_code)
        stopped == IF stop_container /\ ~coded._FALL_WITH_TIMEOUT_EXCEPTION
                   THEN StopContainer(coded) ELSE coded
    IN  Kotlin_format_results(stopped, decided)

\* ---- scala.py ----
\* two of the XML files under test-reports that run_test walks over
ScalaFileStates ==
    [first  : {NoFile, Garbage, XmlFile(<<OnePassed>>), XmlFile(<<OneFailed>>)},
     second : {NoFile, XmlFile(<<OnePassed>>)}]

\* the first line of stdout + stderr that reads "[info] Test run completed:
\* P passed, F failed, E errors, S skipped" or "[info] Run completed ...
\* Tests: succeeded P, failed F", when there is one
SbtConsoles ==
    {<<>>,
     <<[pattern |-> "test_completed", passed |-> 1, failed |-> 0, errors |-> 0, skipped |-> 1]>>,
     <<[pattern |-> "test_completed", passed |-> 0, failed |-> 0, errors |-> 1, skipped |-> 0]>>,
     <<[pattern |-> "scalatest", passed |-> 0, failed |-> 1, errors |-> 1, skipped |-> 1]>>}

parse_sbt_console_output(console) ==
    IF console = <<>> THEN Summary(0, 0, 0, 0, 0, 0)
    ELSE LET line == console[1]
         IN  IF line.pattern = "test_completed"
             THEN LET total == line.passed + line.failed + line.errors + line.skipped
                  IN  Summary(total, line.passed, line.failed, line.skipped, line.errors, total)
             ELSE LET total == line.passed + line.failed
                  IN  Summary(total, line.passed, line.failed, 0, 0, total)

Scala_format_results(hd, sbt_json) ==
    LET parser_result == IF sbt_json.summary.total > 0 THEN sbt_json
                         ELSE Report(Summary(0, 0, 0, 0, 0, 0), {"errors", "collected"},
                                     sbt_json.status)
    IN  Returning(hd, parser_result, parser_result)

\* ScalaDockerRepo.run_test: _ensure_nodejs swallows every exception; every
\* exception of the test command is caught; the XML reports, then the
\* console, then the exit status of the command decide the status
Scala_run_test(hd, outcome, written, console, stop_container) ==
    LET started == StartContainer(hd)
        ran     == IF outcome = "timeout"
                   THEN [started EXCEPT !.return_code = 2, !._FALL_WITH_TIMEOUT_EXCEPTION = TRUE,
                                        !.files = written]
                   ELSE IF outcome = "error" THEN [started EXCEPT !.return_code = 1]
                   ELSE [started EXCEPT !.files = written]
        original_return_code == IF outcome \in {"rc0", "rc1"} THEN Rc(outcome) ELSE 1
        parsed_reports == Kept(MapSeq(parse_junit_xml_report, <<ran.files.first, ran.files.second>>))
        merged         == KotlinMergeReports(parsed_reports)
        console_stats  == parse_sbt_console_output(console)
        test_results   == IF merged.summary.total = 0 /\ console_stats.total > 0
                          THEN Report(console_stats, {"errors", "collected"},
                                      IF console_stats.failed > 0 \/ console_stats.errors > 0
                                      THEN "failed" ELSE "passed")
                          ELSE merged
        coded   == IF test_results.status = "passed" THEN [ran EXCEPT !.return_code = 0]
                   ELSE IF test_results.status = "failed" THEN [ran EXCEPT !.return_code = 1]
                   ELSE [ran EXCEPT !.return_code = original_return_code]
        decided == StatusByReturnCode(test_results, original_return_code)
        stopped == IF stop_container /\ ~coded._FALL_WITH_TIMEOUT_EXCEPTION
                   THEN StopContainer(coded) ELSE coded
    IN  Scala_format_results(stopped, decided)

\* ---- ruby.py ----
\* the "summary" object of an RSpec JSON report
RspecJson(summary) == [fmt |-> "rspec", body |-> <<summary>>]

RspecPassed == [example_count |-> 1, failure_count |-> 0, pending_count |-> 0]
RspecFailed == [example_count |-> 1, failure_count |-> 1, pending_count |-> 0]

\* a JSON file and an XML file of test-results
RubyFileStates ==
    [json : {NoFile, Garbage, RspecJson(RspecPassed), RspecJson(RspecFailed)},
     xml  : {NoFile, XmlFile(<<>>), XmlFile(<<OnePassed>>)}]

_parse_rspec_json(data) ==
    LET total   == data.example_count
        failed  == data.failure_count
        skipped == data.pending_count
        summary == Summary(total, total - failed - skipped, failed, skipped, 0, total)
    IN  Report(summary, {"errors", "collected"},
               IF summary.failed = 0 /\ summary.total > 0 THEN "passed"
               ELSE IF summary.failed > 0 THEN "failed" ELSE "unknown")

parse_ruby_test_report(file) ==
    IF file.fmt = "missing" THEN EmptyDict
    ELSE IF file.fmt = "rspec" THEN _parse_rspec_json(file.body[1])
    ELSE IF file.fmt = "xml"
    THEN LET counted == junit_totals(file.body)
             summary == [counted EXCEPT !.collected = counted.total]
         IN  Report(summary, {"errors", "collected"},
                    IF summary.failed + summary.errors = 0 /\ summary.total > 0
                    THEN "passed" ELSE "failed")
    ELSE EmptyDict

\* a slip: collected counts the reports that were merged
RubyMergeReports_collected_len(reports) ==
    IF reports = <<>> THEN EmptyDict
    ELSE LET added   == AddSummaries(reports)
             summary == [added EXCEPT !.collected = Len(reports)]
         IN  Report(summary, {"errors", "collected"},
                    IF summary.failed + summary.errors = 0 /\ summary.total > 0
                    THEN "passed" ELSE "failed")

RubyMergeReports(reports) ==
    IF reports = <<>> THEN EmptyDict
    ELSE LET added   == AddSummaries(reports)
             summary == [added EXCEPT !.collected = added.total]
         IN  Report(summary, {"errors", "collected"},
                    IF summary.failed + summary.errors = 0 /\ summary.total > 0
                    THEN "passed" ELSE "failed")

Ruby_format_results(hd, test_json) ==
    LET parser_result == IF test_json.kind = "report" THEN test_json
                         ELSE DefaultResult({"errors", "collected"})
    IN  Returning(hd, parser_result, parser_result)

\* RubyDockerRepo.run_test; _configure_test_reporters swallows every
\* exception
Ruby_run_test(hd, outcome, written, stop_container) ==
    LET ran            == TestCommand(StartContainer(hd), outcome, written)
        parsed_reports == Kept(MapSeq(parse_ruby_test_report, <<ran.files.json, ran.files.xml>>))
        test_results   == RubyMergeReports(parsed_reports)
        stopped        == IF stop_container /\ ~ran._FALL_WITH_TIMEOUT_EXCEPTION
                          THEN StopContainer(ran) ELSE ran
    IN  IF outcome = "error" THEN Raising(ran, "DockerException")
        ELSE Ruby_format_results(stopped, test_results)

\* ---- typescript.py ----
\* the attributes of the root element of test-results.xml
MochaXml(attrs) == [fmt |-> "mocha", body |-> <<attrs>>]

JestPassed == [numTotalTests |-> 1, numPassedTests |-> 1, numFailedTests |-> 0,
               numPendingTests |-> 0, numTodoTests |-> 0]
JestTodo   == [numTotalTests |-> 1, numPassedTests |-> 0, numFailedTests |-> 0,
               numPendingTests |-> 0, numTodoTests |-> 1]

\* test-results.xml and jest-results.json
TypeScriptFileStates ==
    [xml  : {NoFile, Garbage, MochaXml(OnePassed), MochaXml(OneFailed)},
     jest : {NoFile, JestJson(JestPassed), JestJson(JestTodo)}]

\* what the patterns of javascript_stout.py find in stdout: how many of the
\* Jest and of the Mocha patterns match, the "Tests:" line, the counts of
\* "N passing", "N failing", "N pending"
NoMocha == [passing |-> <<>>, failing |-> <<>>, pending |-> <<>>]

TypeScriptStdouts ==
    {[jest_score |-> 0, mocha_score |-> 0, tests_line |-> <<>>, mocha |-> NoMocha],
     \* "PASS src/a.test.ts" and no summary yet
     [jest_score |-> 1, mocha_score |-> 0, tests_line |-> <<>>, mocha |-> NoMocha],
     \* "PASS src/a.test.ts", "Tests: 1 passed, 1 total"
     [jest_score |-> 2, mocha_score |-> 0,
      tests_line |-> <<[failed |-> <<>>, passed |-> <<1>>, skipped |-> <<>>, total |-> <<1>>]>>,
      mocha |-> NoMocha],
     \* "1 passing"
     [jest_score |-> 0, mocha_score |-> 1, tests_line |-> <<>>,
      mocha |-> [passing |-> <<1>>, failing |-> <<>>, pending |-> <<>>]]}

detect_test_framework(s) ==
    IF s.jest_score > s.mocha_score THEN "jest"
    ELSE IF s.mocha_score > s.jest_score THEN "mocha"
    ELSE "unknown"

parse_test_stdout(s) ==
    IF detect_test_framework(s) = "jest" THEN parse_jest_stdout(s.tests_line)
    ELSE IF detect_test_framework(s) = "mocha" THEN parse_mocha_stdout(s.mocha)
    ELSE Report(Summary(0, 0, 0, 0, 0, 0), {}, "unknown")

read_mocha_xml(file) ==
    IF file.fmt = "mocha"
    THEN LET a == file.body[1]
         IN  Report(Summary(a.tests, a.tests - a.failures - a.errors - a.skipped,
                            a.failures, a.skipped, a.errors, a.tests),
                    {"errors", "collected"}, "absent")
    ELSE EmptyDict

read_jest_json(file) ==
    IF file.fmt = "jest"
    THEN LET dct == file.body[1]
         IN  Report(Summary(dct.numTotalTests, dct.numPassedTests, dct.numFailedTests,
                            dct.numPendingTests + dct.numTodoTests, 0, dct.numTotalTests),
                    {"errors", "collected"}, "absent")
    ELSE EmptyDict

read_jest_or_mocha(files) ==
    LET test_exist_mocha == files.xml.fmt # "missing"
        test_exist_jest  == files.jest.fmt # "missing"
    IN  IF test_exist_mocha /\ test_exist_jest THEN read_jest_json(files.jest)
        ELSE IF ~(test_exist_mocha \/ test_exist_jest) THEN EmptyDict
        ELSE IF test_exist_mocha THEN read_mocha_xml(files.xml)
        ELSE read_jest_json(files.jest)

\* parse_test_stdout is called without a try: the KeyError of
\* parse_jest_stdout leaves run_test as an exception
TypeScript_format_results(hd, rep, stdout) ==
    LET parser_result == IF rep.kind = "report" THEN rep ELSE parse_test_stdout(stdout)
    IN  IF parser_result.kind = "raised" THEN Raising(hd, "KeyError")
        ELSE Returning(hd, rep, parser_result)

\* TypeScriptDockerRepo.run_test: the timeout clause sets return_code 2 and
\* leaves the flag alone
TypeScript_run_test(hd, outcome, written, stdout, stop_container) ==
    LET started == StartContainer(hd)
        ran     == IF outcome = "timeout" THEN [started EXCEPT !.return_code = 2, !.files = written]
                   ELSE IF outcome = "error" THEN started
                   ELSE [started EXCEPT !.return_code = Rc(outcome), !.files = written]
        rep     == read_jest_or_mocha(ran.files)
        coded   == IF rep.kind = "report" /\ rep.summary.total > 0 /\ rep.summary.failed = 0
                   THEN [ran EXCEPT !.return_code = 0] ELSE ran
        stopped == IF stop_container /\ ~coded._FALL_WITH_TIMEOUT_EXCEPTION
                   THEN StopContainer(coded) ELSE coded
    IN  IF outcome = "error" THEN Raising(ran, "DockerException")
        ELSE TypeScript_format_results(stopped, rep, stdout)

\* ---- cpp.py ----
\* the Status of each Test element of a CTest Test.xml (root element Site)
SiteXml(statuses) == [fmt |-> "site", body |-> statuses]

\* test-results/junit.xml and build/Testing/<tag>/Test.xml; no gtest JSON
\* file is among the inputs
CppFileStates ==
    [junit : {NoFile, Garbage, XmlFile(<<OnePassed>>), XmlFile(<<OneFailed>>)},
     site  : {NoFile, SiteXml(<<"passed">>)}]

parse_cpp_test_report(file) ==
    IF file.fmt = "missing" THEN EmptyDict
    ELSE IF file.fmt = "site"
    THEN LET total   == Len(file.body)
             passed  == Len(SelectSeq(file.body, LAMBDA st : st = "passed"))
             summary == Summary(total, passed, total - passed, 0, 0, total)
         IN  Report(summary, {"errors", "collected"},
                    IF summary.failed + summary.errors = 0 /\ summary.total > 0
                    THEN "passed" ELSE "failed")
    ELSE IF file.fmt = "xml"
    THEN LET counted == junit_totals(file.body)
             summary == [counted EXCEPT !.collected = counted.total]
         IN  Report(summary, {"errors", "collected"},
                    IF summary.failed + summary.errors = 0 /\ summary.total > 0
                    THEN "passed" ELSE "failed")
    ELSE EmptyDict

\* CppDockerRepo._merge_reports: collected is summed like the other counts
CppMergeReports(reports) ==
    IF reports = <<>> THEN EmptyDict
    ELSE LET added   == AddSummaries(reports)
             summary == [added EXCEPT !.collected = SumOver(MapSeq(LAMBDA r : r.summary, reports),
                                                            "collected")]
         IN  Report(summary, {"errors", "collected"},
                    IF summary.failed + summary.errors = 0 /\ summary.total > 0
                    THEN "passed" ELSE "failed")

\* what the commands of the fallback stages of run_test do: the grep of
\* CMakeCache.txt (its exec fails, the test flags are on, or off/not found),
\* the rebuild and the ctest rerun (exec fails or exits), the Test.xml the
\* rerun leaves, the find of test binaries, and the exit of each binary run;
\* a stage that is not reached keeps its first value
CppFallbacks ==
    {f \in [cache : {"error", "on", "off"}, build : {"error", "rc0"},
            ctest : {"error", "rc0", "rc1"}, retest : {NoFile, SiteXml(<<"passed">>)},
            find : {"error", "ok"}, binaries : {<<>>, <<"rc0">>, <<"rc1">>}] :
        /\ f.cache # "off" => f.build = "error"
        /\ f.build = "error" => f.ctest = "error"
        /\ f.ctest = "error" => f.retest = NoFile
        /\ f.retest # NoFile => f.find = "error"
        /\ f.find = "error" => f.binaries = <<>>}

NoFallback == [cache |-> "error", build |-> "error", ctest |-> "error", retest |-> NoFile,
               find |-> "error", binaries |-> <<>>]

\* `not test_results or test_results["summary"]["total"] == 0`
NoTests(test_results) == test_results.kind # "report" \/ test_results.summary.total = 0

\* cpp.py 438-471: the CMakeCache check, the rebuild and the ctest rerun;
\* every exec that completes leaves its exit status in return_code, every
\* exception is logged and dropped
CppRebuild(hd, parsed_reports, test_results, fb) ==
    LET same    == [h |-> hd, reports |-> parsed_reports, results |-> test_results]
        checked == [hd EXCEPT !.return_code = 0]
        built   == [checked EXCEPT !.return_code = Rc(fb.build)]
        retried == [built EXCEPT !.return_code = Rc(fb.ctest),
                                 !.files.site = IF fb.retest = NoFile THEN @ ELSE fb.retest]
        found   == parse_cpp_test_report(retried.files.site)
        reports == IF found.kind = "report" /\ found.summary.total > 0
                   THEN Append(parsed_reports, found) ELSE parsed_reports
    IN  IF fb.cache = "error" THEN same
        ELSE IF fb.cache = "on" \/ fb.build = "error" THEN [same EXCEPT !.h = checked]
        ELSE IF fb.ctest = "error" THEN [same EXCEPT !.h = built]
        ELSE [h |-> retried, reports |-> reports,
              results |-> IF reports # <<>> THEN CppMergeReports(reports) ELSE test_results]

\* cpp.py 473-546: the test binaries found are run and counted one test each
CppBinaries(st, fb) ==
    LET found  == [st.h EXCEPT !.return_code = 0]
        total  == Len(fb.binaries)
        passed == Len(SelectSeq(fb.binaries, LAMBDA b : b = "rc0"))
        result == Report(Summary(total, passed, total - passed, 0, 0, total),
                         {"errors", "collected"},
                         IF total - passed = 0 THEN "passed" ELSE "failed")
    IN  IF fb.find = "error" THEN st
        ELSE IF fb.binaries = <<>> THEN [st EXCEPT !.h = found]
        ELSE [h |-> [found EXCEPT !.return_code = Rc(fb.binaries[total])],
              reports |-> st.reports,
              results |-> IF st.reports # <<>> THEN CppMergeReports(st.reports) ELSE result]

Cpp_format_results(hd, test_json) ==
    LET parser_result == IF test_json.kind = "report" THEN test_json
                         ELSE DefaultResult({"errors", "collected"})
    IN  Returning(hd, parser_result, parser_result)

\* cpp.py, the end of run_test: return_code 0 for a report without
\* failures, stop_container, _format_results
Cpp_run_test_finish(ran, final, outcome, stop_container) ==
    LET coded == IF ~NoTests(final.results) /\ final.results.summary.failed = 0
                    /\ final.results.summary.errors = 0
                 THEN [final.h EXCEPT !.return_code = 0] ELSE final.h
    IN  IF outcome = "error" THEN Raising(ran, "DockerException")
        ELSE Cpp_format_results(IF stop_container THEN StopContainer(coded) ELSE coded,
                                final.results)

\* the test binaries are the last resort
Cpp_run_test_rebuilt(ran, merged, rebuilt, outcome, fb, stop_container) ==
    Cpp_run_test_finish(ran,
                        IF NoTests(merged) /\ NoTests(rebuilt.results)
                        THEN CppBinaries(rebuilt, fb) ELSE rebuilt,
                        outcome, stop_container)

\* the rebuild is tried when the reports hold no test
Cpp_run_test_merged(ran, parsed_reports, merged, outcome, fb, stop_container) ==
    Cpp_run_test_rebuilt(ran, merged,
                         IF NoTests(merged) THEN CppRebuild(ran, parsed_reports, merged, fb)
                         ELSE [h |-> ran, reports |-> parsed_reports, results |-> merged],
                         outcome, fb, stop_container)

Cpp_run_test_parsed(ran, parsed_reports, outcome, fb, stop_container) ==
    Cpp_run_test_merged(ran, parsed_reports, CppMergeReports(parsed_reports),
                        outcome, fb, stop_container)

\* CppDockerRepo.run_test: the check for ctest swallows every exception; the
\* timeout clause sets return_code 2 and leaves the flag alone; the container
\* is stopped whatever the flag says
Cpp_run_test(hd, outcome, written, fb, stop_container) ==
    LET started == StartContainer(hd)
        ran     == IF outcome = "timeout" THEN [started EXCEPT !.return_code = 2, !.files = written]
                   ELSE IF outcome = "error" THEN started
                   ELSE [started EXCEPT !.return_code = Rc(outcome), !.files = written]
    IN  Cpp_run_test_parsed(ran,
                            Kept(MapSeq(parse_cpp_test_report, <<ran.files.junit, ran.files.site>>)),
                            outcome, fb, stop_container)

(***************************************************************************)
(* The handle: any MaxCalls operations in any order                        *)
(***************************************************************************)
NoFiles(lang) ==
    CASE lang = "go"         -> [json |-> NoFile, xml |-> NoFile, jsonl |-> NoFile]
      [] lang = "kotlin"     -> [first |-> NoFile, second |-> NoFile]
      [] lang = "scala"      -> [first |-> NoFile, second |-> NoFile]
      [] lang = "ruby"       -> [json |-> NoFile, xml |-> NoFile]
      [] lang = "typescript" -> [xml |-> NoFile, jest |-> NoFile]
      [] lang = "cpp"        -> [junit |-> NoFile, site |-> NoFile]
      [] OTHER               -> [none |-> NoFile]

\* a handle as its constructor leaves it: no container, image_name the
\* image_name argument (the base image), return_code 0.  image_built says
\* whether the image default_image_name exists (was_build); it does when an
\* earlier handle of the same repository and commit committed it.
NewHandle(lang, built) ==
    [lang |-> lang, container |-> NoContainer, image_name |-> "base",
     image_built |-> built, _FALL_WITH_TIMEOUT_EXCEPTION |-> FALSE,
     return_code |-> 0, files |-> NoFiles(lang)]

Init ==
    /\ \E lang \in Langs, built \in BOOLEAN : h = NewHandle(lang, built)
    /\ last = [op |-> "none"]
    /\ ncalls = 0
    /\ IdleParse
    /\ IdleMore
    /\ IdleCorrect
    /\ IdleTask

\* the call of an operation and what it left.  wrote is FALSE when the
\* command of a run_test wrote no report file, so that the report files of
\* the working folder are those of earlier calls; clean_report is then the
\* report the same call returns in a working folder without report files
CalledWith(op, outcome, commit_image, stop_container, out, wrote, clean_report) ==
    /\ h' = out.h
    /\ last' = [op |-> op, outcome |-> outcome, commit_image |-> commit_image,
                stop_container |-> stop_container, raised |-> out.raised,
                committed |-> out.committed, tried |-> out.tried,
                sleeps |-> out.sleeps, built_before |-> h.image_built,
                image_before |-> h.image_name,
                flag_before |-> h._FALL_WITH_TIMEOUT_EXCEPTION,
                returncode |-> out.h.return_code, report |-> out.report,
                parser |-> out.parser, wrote |-> wrote, clean_report |-> clean_report]
    /\ ncalls' = ncalls + 1
    /\ UNCHANGED <<varsCorrect, varsTask, varsParse, varsMore>>

Called(op, outcome, commit_image, stop_container, out) ==
    CalledWith(op, outcome, commit_image, stop_container, out, TRUE, out.report)

\* build_env returns _format_results() without a report
Built(out) ==
    [h |-> out.h, raised |-> out.raised, committed |-> out.committed,
     tried |-> out.tried, sleeps |-> out.sleeps,
     report |-> EmptyDict, parser |-> DefaultResult({})]

\* container.commit succeeding at once
CommitsOk == [i \in 1..CommitRetries |-> "ok"]

\* the arguments of a build_env and how the build command and the commits
\* end; where no commit is attempted one value stands for them all
BuildArgs ==
    {a \in [outcome : ExecOutcomes, commit_image : BOOLEAN, stop_container : BOOLEAN,
            commits : CommitResults] :
        (~a.commit_image \/ a.outcome \notin {"rc0", "rc1"}) => a.commits = CommitsOk}

GoBuildEnv ==
    /\ h.lang = "go" /\ ncalls < MaxCalls
    /\ \E a \in BuildArgs :
          Called("build_env", a.outcome, a.commit_image, a.stop_container,
                 Built(GoLang_build_env(h, a.outcome, a.commit_image, a.stop_container, a.commits)))

RubyBuildEnv ==
    /\ h.lang = "ruby" /\ ncalls < MaxCalls
    /\ \E a \in BuildArgs :
          Called("build_env", a.outcome, a.commit_image, a.stop_container,
                 Built(Ruby_build_env(h, a.outcome, a.commit_image, a.stop_container, a.commits)))

JavaScriptBuildEnv ==
    /\ h.lang = "javascript" /\ ncalls < MaxCalls
    /\ \E a \in BuildArgs :
          Called("build_env", a.outcome, a.commit_image, a.stop_container,
                 Built(JavaScript_build_env(h, a.outcome, a.commit_image, a.stop_container, a.commits)))

RustBuildEnv ==
    /\ h.lang = "rust" /\ ncalls < MaxCalls
    /\ \E a \in BuildArgs :
          Called("build_env", a.outcome, a.commit_image, a.stop_container,
                 Built(Rust_build_env(h, a.outcome, a.commit_image, a.stop_container, a.commits)))

ScalaBuildEnv ==
    /\ h.lang = "scala" /\ ncalls < MaxCalls
    /\ \E a \in BuildArgs :
          Called("build_env", a.outcome, a.commit_image, a.stop_container,
                 Built(Scala_build_env(h, a.outcome, a.commit_image, a.stop_container, a.commits)))

KotlinBuildEnv ==
    /\ h.lang = "kotlin" /\ ncalls < MaxCalls
    /\ \E a \in BuildArgs :
          Called("build_env", a.outcome, a.commit_image, a.stop_container,
                 Built(Kotlin_build_env(h, a.outcome, a.commit_image, a.stop_container, a.commits)))

TypeScriptBuildEnv ==
    /\ h.lang = "typescript" /\ ncalls < MaxCalls
    /\ \E a \in BuildArgs, npm_done \in BOOLEAN :
          Called("build_env", a.outcome, a.commit_image, a.stop_container,
                 Built(TypeScript_build_env(h, a.outcome, a.commit_image, a.stop_container,
                                            a.commits, npm_done)))

CppBuildEnv ==
    /\ h.lang = "cpp" /\ ncalls < MaxCalls
    /\ \E a \in BuildArgs, verified \in {"error", "rc0", "rc1", "many"} :
          Called("build_env", a.outcome, a.commit_image, a.stop_container,
                 Built(Cpp_build_env(h, a.outcome, a.commit_image, a.stop_container,
                                     a.commits, verified)))

GoRunTest ==
    /\ h.lang = "go" /\ ncalls < MaxCalls
    /\ \E outcome \in ExecOutcomes, written \in GoFileStates, stop_container \in BOOLEAN :
          Called("run_test", outcome, FALSE, stop_container,
                 GoLang_run_test(h, outcome, written, stop_container))

KotlinRunTest ==
    /\ h.lang = "kotlin" /\ ncalls < MaxCalls
    /\ \E outcome \in ExecOutcomes, written \in KotlinFileStates, console \in GradleConsoles,
          stop_container \in BOOLEAN :
          Called("run_test", outcome, FALSE, stop_container,
                 Kotlin_run_test(h, outcome, written, console, stop_container))

ScalaRunTest ==
    /\ h.lang = "scala" /\ ncalls < MaxCalls
    /\ \E outcome \in ExecOutcomes, written \in ScalaFileStates, console \in SbtConsoles,
          stop_container \in BOOLEAN :
          Called("run_test", outcome, FALSE, stop_container,
                 Scala_run_test(h, outcome, written, console, stop_container))

RubyRunTest ==
    /\ h.lang = "ruby" /\ ncalls < MaxCalls
    /\ \E outcome \in ExecOutcomes, written \in RubyFileStates, stop_container \in BOOLEAN :
          Called("run_test", outcome, FALSE, stop_container,
                 Ruby_run_test(h, outcome, written, stop_container))

TypeScriptRunTest ==
    /\ h.lang = "typescript" /\ ncalls < MaxCalls
    /\ \E outcome \in ExecOutcomes, written \in TypeScriptFileStates,
          stdout \in TypeScriptStdouts, stop_container \in BOOLEAN :
          Called("run_test", outcome, FALSE, stop_container,
                 TypeScript_run_test(h, outcome, written, stdout, stop_container))

\* run_test with a test command that writes no report file: nothing between
\* start_container and _find_test_reports removes a file, so the XML files
\* of the working folder are the ones it held before the call
KotlinRunTestNoReport ==
    /\ h.lang = "kotlin" /\ ncalls < MaxCalls
    /\ \E outcome \in ExecOutcomes, console \in GradleConsoles, stop_container \in BOOLEAN :
          CalledWith("run_test", outcome, FALSE, stop_container,
                     Kotlin_run_test(h, outcome, h.files, console, stop_container), FALSE,
                     Kotlin_run_test(h, outcome, NoFiles("kotlin"), console, stop_container).report)

RubyRunTestNoReport ==
    /\ h.lang = "ruby" /\ ncalls < MaxCalls
    /\ \E outcome \in ExecOutcomes, stop_container \in BOOLEAN :
          CalledWith("run_test", outcome, FALSE, stop_container,
                     Ruby_run_test(h, outcome, h.files, stop_container), FALSE,
                     Ruby_run_test(h, outcome, NoFiles("ruby"), stop_container).report)

TypeScriptRunTestNoReport ==
    /\ h.lang = "typescript" /\ ncalls < MaxCalls
    /\ \E outcome \in ExecOutcomes, stdout \in TypeScriptStdouts, stop_container \in BOOLEAN :
          CalledWith("run_test", outcome, FALSE, stop_container,
                     TypeScript_run_test(h, outcome, h.files, stdout, stop_container), FALSE,
                     TypeScript_run_test(h, outcome, NoFiles("typescript"), stdout,
                                         stop_container).report)

\* the fallback stages run only when the report files hold no test
CppRunTest ==
    /\ h.lang = "cpp" /\ ncalls < MaxCalls
    /\ \E outcome \in ExecOutcomes, written \in CppFileStates, stop_container \in BOOLEAN :
          \E fb \in (IF outcome # "error"
                        /\ Kept(MapSeq(parse_cpp_test_report, <<written.junit, written.site>>)) = <<>>
                     THEN CppFallbacks ELSE {NoFallback}) :
             Called("run_test", outcome, FALSE, stop_container,
                    Cpp_run_test(h, outcome, written, fb, stop_container))

\* the second statement of __call__, 'return self.run_test(...)', reached
\* when build_env was skipped or has returned
CallRunTest(hd, was_build, built, test_outcome, written) ==
    IF ~was_build /\ built.raised # "none"
    THEN [out |-> Built(built), build_ran |-> TRUE,
          build_returncode |-> built.h.return_code, test_ran |-> FALSE]
    ELSE [out |-> GoLang_run_test(IF was_build THEN hd ELSE built.h, test_outcome, written, TRUE),
          build_ran |-> ~was_build,
          build_returncode |-> IF was_build THEN 0 ELSE built.h.return_code,
          test_ran |-> TRUE]

\* GoLangDockerRepo.__call__: build_env with its default arguments
\* (commit_image=True, stop_container=True) unless the image exists, then
\* run_test; an exception of build_env leaves __call__ before run_test
GoLang_call(hd, build_outcome, commits, test_outcome, written) ==
    CallRunTest(hd, hd.image_built, GoLang_build_env(hd, build_outcome, TRUE, TRUE, commits),
                test_outcome, written)

\* the report files the test command of a __call__ leaves: none, or the
\* stream of one passing test
GoCallFiles ==
    {[json |-> NoFile, xml |-> NoFile, jsonl |-> NoFile],
     [json |-> JsonLines(<<GoLine("pass")>>), xml |-> NoFile, jsonl |-> NoFile]}

\* how the two commands of a __call__ end; where the build is skipped, or
\* the test command is not reached, one value stands for all
CallArgs ==
    {a \in [was_build : BOOLEAN, build_outcome : ExecOutcomes, commits : CommitResults,
            test_outcome : ExecOutcomes, written : GoCallFiles] :
        /\ a.was_build => a.build_outcome = "rc0"
        /\ (a.was_build \/ a.build_outcome \notin {"rc0", "rc1"}) => a.commits = CommitsOk
        /\ (~a.was_build /\ (\/ a.build_outcome \in {"timeout", "error"}
                              \/ \A i \in 1..CommitRetries : a.commits[i] # "ok"))
              => (a.test_outcome = "rc0" /\ a.written = NoFiles("go"))}

\* __call__ was called with the inputs a and left c
CalledCall(a, c) ==
    /\ h' = c.out.h
    /\ last' = [op |-> "__call__", build_outcome |-> a.build_outcome,
                test_outcome |-> a.test_outcome, raised |-> c.out.raised,
                built_before |-> h.image_built, build_ran |-> c.build_ran,
                build_returncode |-> c.build_returncode, test_ran |-> c.test_ran,
                returncode |-> c.out.h.return_code, report |-> c.out.report,
                parser |-> c.out.parser]
    /\ ncalls' = ncalls + 1
    /\ UNCHANGED <<varsCorrect, varsTask, varsParse, varsMore>>

GoCall ==
    /\ h.lang = "go" /\ ncalls < MaxCalls
    /\ \E a \in {x \in CallArgs : x.was_build = h.image_built} :
          CalledCall(a, GoLang_call(h, a.build_outcome, a.commits, a.test_outcome, a.written))

Next ==
    \/ GoCall
    \/ GoBuildEnv
    \/ RubyBuildEnv
    \/ JavaScriptBuildEnv
    \/ RustBuildEnv
    \/ ScalaBuildEnv
    \/ KotlinBuildEnv
    \/ TypeScriptBuildEnv
    \/ CppBuildEnv
    \/ GoRunTest
    \/ KotlinRunTest
    \/ ScalaRunTest
    \/ RubyRunTest
    \/ TypeScriptRunTest
    \/ CppRunTest
    \/ KotlinRunTestNoReport
    \/ RubyRunTestNoReport
    \/ TypeScriptRunTestNoReport

Spec == Init /\ [][Next]_vars

\* run_test was the last call on the handle and returned a result
RunTestReturned == last.op = "run_test" /\ last.raised = "none"

\* C1: when run_test returns a result with summary.total = 0, its parser
\* entry has status "unknown", and so has its report entry when that is a
\* report with a status and no test.
C1_UnknownOnEmpty ==
    RunTestReturned =>
        /\ last.parser.summary.total = 0 => last.parser.status = "unknown"
        /\ (last.report.kind = "report" /\ last.report.status # "absent"
               /\ last.report.summary.total = 0) => last.report.status = "unknown"

\* C8: a run_test whose test command exceeds its timeout returns (raises
\* nothing) and the returncode of its result is 2, whatever report files
\* are found.
C8_TimeoutCode ==
    (last.op = "run_test" /\ last.outcome = "timeout") =>
        (last.raised = "none" /\ last.returncode = 2)

\* C9: a build_env whose build command exceeds its timeout raises
\* TimeOutException and does not commit the container: the image of the
\* handle is the one it had before the call.
C9_BuildTimeout ==
    (last.op = "build_env" /\ last.outcome = "timeout") =>
        /\ last.raised = "TimeOutException"
        /\ ~last.committed
        /\ h.image_built = last.built_before
        /\ h.image_name = last.image_before

\* a build_env called with commit_image = True timed out on a handle without
\* a built image
C9_Witness ==
    /\ last.op = "build_env" /\ last.outcome = "timeout" /\ last.commit_image
    /\ last.raised = "TimeOutException"
    /\ ~last.built_before /\ ~h.image_built

\* C10: when run_test called with stop_container = True returns, the
\* container is stopped.
C10_StoppedOnReturn ==
    (RunTestReturned /\ last.stop_container) => h.container.state = "stopped"

\* C11: when build_env called with stop_container = True returns, raises
\* TimeOutException or raises the APIError of the failed commit, the
\* container is stopped.
C11_BuildStopped ==
    (last.op = "build_env" /\ last.stop_container
        /\ last.raised \in {"none", "TimeOutException", "APIError"})
        => h.container.state = "stopped"

\* C12: _commit_container_image makes at most CommitRetries attempts; every
\* attempt but the last one made has failed (it returns at the first
\* success); it has slept once between two attempts and never after the
\* last; it raises APIError exactly when all CommitRetries attempts failed.
C12_CommitRetry ==
    LET n == Len(last.tried)
    IN  (last.op = "build_env" /\ n > 0) =>
            /\ n <= CommitRetries
            /\ \A i \in 1..(n - 1) : last.tried[i] = "APIError"
            /\ last.sleeps = n - 1
            /\ ((last.raised = "APIError") <=> (n = CommitRetries /\ last.tried[n] = "APIError"))
            /\ (last.committed <=> (last.tried[n] = "ok"))

\* a build_env whose commit failed at every attempt
C12_Witness ==
    /\ last.op = "build_env" /\ last.commit_image
    /\ last.tried = <<"APIError", "APIError", "APIError">>
    /\ last.raised = "APIError"

\* C17: a __call__ on a handle without a built image whose build command
\* runs out of time or exits with a status other than 0 does not run the
\* test command.
C17_NoTestWithoutBuild ==
    (last.op = "__call__" /\ ~last.built_before /\ last.build_outcome \in {"timeout", "rc1"})
        => ~last.test_ran

\* C19: whatever the report files and the captured stdout hold, a run_test
\* whose test command was executed returns a result: the handling of the
\* reports raises nothing.
C19_ReportNeverRaises ==
    (last.op = "run_test" /\ last.outcome # "error") => last.raised = "none"

\* C22: whatever the test command did (exit status 0 or not, timeout, any
\* other exception, no parsed test), run_test of the Scala and of the Kotlin
\* backend returns, and the status of the report it returns is "passed" or
\* "failed".
C22_PassedOrFailed ==
    (last.op = "run_test" /\ h.lang \in {"kotlin", "scala"}) =>
        /\ last.raised = "none"
        /\ last.parser.status \in {"passed", "failed"}
        /\ last.report.status \in {"passed", "failed"}

\* a Scala run_test that timed out and parsed no test
C22_Witness ==
    /\ last.op = "run_test" /\ h.lang = "scala" /\ last.outcome = "timeout"
    /\ last.parser.summary.total = 0 /\ last.parser.status = "failed"

\* C26: the summary of every report run_test returns has the key
\* "collected", and when the test command ran to its end collected equals
\* total.
C26_Collected ==
    (RunTestReturned /\ last.report.kind = "report") =>
        /\ "collected" \in last.report.keys
        /\ last.outcome \in {"rc0", "rc1"} =>
               last.report.summary.collected = last.report.summary.total

\* C27: a run_test on a handle whose image has not been built does not run
\* the test command in a container of an image that was not built: when the
\* test command has run, the image exists and the container was started
\* from it.
C27_TestOnlyFromBuilt ==
    (last.op = "run_test" /\ ~last.built_before /\ last.outcome \in {"rc0", "rc1", "timeout"}) =>
        (h.image_built /\ h.container.image = "built")

\* C28: the run_test of a __call__ that skipped build_env because the image
\* exists starts its container from that image, not from the base image.
C28_ReusableImage ==
    (last.op = "__call__" /\ last.built_before /\ ~last.build_ran /\ last.test_ran) =>
        h.container.image = "built"

\* the reports parse_go_test_report makes of the three files a Go run left
GoParseable ==
    Kept(<<parse_go_test_report(h.files.json), parse_go_test_report(h.files.xml),
           parse_go_test_report(h.files.jsonl)>>)

\* C21: when a run left more than one parseable report file, the summary
\* run_test returns is the field-wise sum over the reports of those files.
C21_SumOfReports ==
    (RunTestReturned /\ h.lang = "go" /\ Len(GoParseable) > 1) =>
        LET sum == AddSummaries(GoParseable)
        IN  /\ last.report.summary.total = sum.total
            /\ last.report.summary.passed = sum.passed
            /\ last.report.summary.failed = sum.failed
            /\ last.report.summary.skipped = sum.skipped

\* the command of the last call ended within its deadline, on a handle one
\* of whose earlier build_env or run_test calls had run out of time
AfterTimeout ==
    /\ last.op \in {"build_env", "run_test"}
    /\ last.flag_before
    /\ last.outcome \in {"rc0", "rc1"}

\* C34: on a handle an earlier call of which timed out, a build_env whose
\* command ends within its deadline does not raise TimeOutException, and a
\* run_test (stop_container=True) whose command ends within its deadline
\* leaves its container stopped.
C34_NoTimeoutLeak ==
    AfterTimeout =>
        /\ last.op = "build_env" => last.raised # "TimeOutException"
        /\ (last.op = "run_test" /\ last.stop_container) => h.container.state = "stopped"

\* C35: the summary run_test returns counts only what its own test command
\* wrote: when the command wrote no report file (timed out before, or
\* otherwise), the summary is the one the call returns in a working folder
\* without report files, whatever files earlier run_test calls left there.
C35_OnlyThisRun ==
    (RunTestReturned /\ ~last.wrote) => last.report.summary = last.clean_report.summary

\* the Ruby test command wrote its results twice, as test-results/rspec.json
\* and as test-results/rspec.xml, the two files holding the same counts
SameRunTwice ==
    /\ RunTestReturned /\ h.lang = "ruby" /\ last.wrote
    /\ last.outcome \in {"rc0", "rc1"}
    /\ h.files.json.fmt = "rspec" /\ h.files.xml.fmt = "xml"
    /\ h.files.json.body[1].example_count > 0
    /\ parse_ruby_test_report(h.files.json).summary = parse_ruby_test_report(h.files.xml).summary

\* C36: when one test run wrote the same results in two formats, the total
\* of the summary run_test returns is the number of tests executed.
C36_CountedOnce ==
    SameRunTwice => last.report.summary.total = h.files.json.body[1].example_count

\* C38: build_env commits the container as the reusable image only when
\* its build command exited with status 0: a build command that exits with
\* another status within its deadline leaves no image committed and
\* was_build as it was.
C38_CommitOnlyBuilt ==
    last.op = "build_env" =>
        /\ last.committed => last.outcome = "rc0"
        /\ last.outcome = "rc1" => h.image_built = last.built_before

(***************************************************************************)
(* start_container against the docker daemon                               *)
(***************************************************************************)
MaxStarts == 3      \* containers started on one daemon

ContainerNames == {"run_a", "run_b"}

\* the containers of the daemon that carry the name
Named(d, name) == {c \in d : c.name = name}

\* docker_client.containers.get(name) ... remove(force=True); NotFound is
\* passed over
ForceRemove(d, name) == d \ Named(d, name)

\* docker_client.containers.run(image, name=name, detach=True): the daemon
\* refuses a name that is in use (409 Conflict, an APIError)
ContainersRun(d, name, id) ==
    IF Named(d, name) # {}
    THEN [daemon |-> d, container |-> 0, raised |-> "APIError"]
    ELSE [daemon |-> d \cup {[id |-> id, name |-> name, state |-> "running"]},
          container |-> id, raised |-> "none"]

\* a slip: the container of the same name is left in place
Kotlin_start_container_no_remove(d, name, id) ==
    ContainersRun(d, name, id)

\* KotlinDockerRepo.start_container
Kotlin_start_container(d, name, id) ==
    ContainersRun(ForceRemove(d, name), name, id)

\* ScalaDockerRepo.start_container
Scala_start_container(d, name, id) ==
    ContainersRun(ForceRemove(d, name), name, id)

\* the containers an earlier process may have left: none, a running or an
\* exited one under each name
StaleDaemons ==
    {d \in SUBSET [id : {1, 2}, name : ContainerNames, state : {"running", "exited"}] :
        /\ \A c \in d : c.id = (IF c.name = "run_a" THEN 1 ELSE 2)
        /\ \A name \in ContainerNames : Cardinality(Named(d, name)) <= 1}

InitContainer ==
    /\ daemon \in StaleDaemons
    /\ self_container = 0
    /\ clast = [op |-> "none"]
    /\ nextid = 3
    /\ IdleCorrect
    /\ IdleTask
    /\ IdleParse
    /\ IdleHandle
    /\ IdleBatch
    /\ IdleModels
    /\ IdleLater

\* start_container was called and left `out`
Started(backend, name, out) ==
    /\ daemon' = out.daemon
    /\ self_container' = IF out.raised = "none" THEN out.container ELSE self_container
    /\ clast' = [op |-> "start_container", backend |-> backend, name |-> name, raised |-> out.raised,
                 before |-> Named(daemon, name), id |-> nextid]
    /\ nextid' = nextid + 1
    /\ UNCHANGED <<varsCorrect, varsTask, varsParse, varsHandle, varsBatch, varsModels, varsLater>>

KotlinStartContainer ==
    /\ nextid < 3 + MaxStarts
    /\ \E name \in ContainerNames : Started("kotlin", name, Kotlin_start_container(daemon, name, nextid))

ScalaStartContainer ==
    /\ nextid < 3 + MaxStarts
    /\ \E name \in ContainerNames : Started("scala", name, Scala_start_container(daemon, name, nextid))

\* stop_container: the container the handle holds is stopped, and removed
\* or kept by the daemon
StopHeldContainer ==
    /\ \E c \in daemon : c.id = self_container /\ c.state = "running"
    /\ \E kept \in BOOLEAN :
          daemon' = {c \in daemon : c.id # self_container}
                       \cup (IF kept
                             THEN {[c EXCEPT !.state = "exited"] : c \in {x \in daemon : x.id = self_container}}
                             ELSE {})
    /\ clast' = [op |-> "stop_container"]
    /\ UNCHANGED <<self_container, nextid, varsCorrect, varsTask, varsParse, varsHandle, varsBatch, varsModels, varsLater>>

NextContainer ==
    \/ KotlinStartContainer
    \/ ScalaStartContainer
    \/ StopHeldContainer

SpecContainer == InitContainer /\ [][NextContainer]_vars

\* C13: at most one container carries each name, and a start_container
\* succeeds whether or not a container of that name existed: afterwards the
\* only container of the name is the new one, running, held by the handle.
C13_OnePerName ==
    /\ \A name \in ContainerNames : Cardinality(Named(daemon, name)) <= 1
    /\ clast.op = "start_container" =>
          /\ clast.raised = "none"
          /\ Named(daemon, clast.name)
                = {[id |-> clast.id, name |-> clast.name, state |-> "running"]}
          /\ self_container = clast.id

\* a start_container found an exited container of the same name
C13_Witness ==
    /\ clast.op = "start_container"
    /\ \E c \in clast.before : c.state = "exited"
    /\ clast.raised = "none"

(***************************************************************************)
(* step6_e2e_execution: the tasks of the input file through the pool       *)
(***************************************************************************)
MaxTasks == 3       \* tasks in the input file
MaxJobs == 2        \* n_jobs

\* the test_patch of a task of the batch: with or without a test file
BatchPatches ==
    {[files |-> {}, binary |-> FALSE],
     [files |-> {[name |-> "tests/test_a.py", py |-> TRUE, test |-> TRUE]}, binary |-> FALSE]}

\* a line of the input file
BatchTasks ==
    [repo_name : {"org/repo"}, base_commit : {"c1", "c2"}, repo_build : {0, 1},
     test_patch : BatchPatches]

TaskLists(n) == UNION {[1..k -> BatchTasks] : k \in 1..n}

\* the name of the container and of the working directory of the handle
\* PythonDockerRepo(repo=task["repo_name"], base_commit=task["base_commit"])
ContainerName(t) == <<t.repo_name, t.base_commit>>

NoName == <<>>

Pending == [state |-> "pending", container |-> NoName, result |-> [kind |-> "none"], collected |-> FALSE]

\* the value build_and_run_tests_docker returns
ReturnsNone == [kind |-> "None"]
ReturnsTask(i, exception, run_status) ==
    [kind |-> "task", idx |-> i, exception |-> exception, run_status |-> run_status]

Finished(r) == [state |-> "finished", container |-> NoName, result |-> r, collected |-> FALSE]

\* the exceptions the try block of build_and_run_tests_docker ends with
\* ("" when it reaches run_status = 1)
BatchExceptions == {"", "Repo missing or deleted", "TimeOutException"}

InitBatch ==
    /\ tasks \in TaskLists(MaxTasks)
    /\ n_jobs \in 1..MaxJobs
    /\ futures = [i \in 1..Len(tasks) |-> Pending]
    /\ results = <<>>
    /\ bpc = "submitted"
    /\ IdleCorrect
    /\ IdleTask
    /\ IdleParse
    /\ IdleHandle
    /\ IdleDaemon
    /\ IdleModels
    /\ IdleLater

Running == {i \in 1..Len(tasks) : futures[i].state = "running"}

\* a worker of ThreadPoolExecutor(max_workers=n_jobs) is free
WorkerFree(i) ==
    Cardinality(Running) < n_jobs

\* process(task) begins: lines 133-152 of build_and_run_tests_docker, up to
\* the construction of the handle.  The pool hands the tasks out in the order
\* of submission; with n_jobs == 1 the list comprehension calls process for a
\* task after the result of the one before is in the list.
ProcessBegin(i) ==
    /\ bpc = "submitted"
    /\ futures[i].state = "pending"
    /\ \A j \in 1..(i - 1) : futures[j].state # "pending"
    /\ n_jobs = 1 => \A j \in 1..(i - 1) : futures[j].collected
    /\ WorkerFree(i)
    /\ futures' = [futures EXCEPT ![i] =
          IF tasks[i].repo_build # 1
          THEN Finished(ReturnsNone)
          ELSE IF extract_test_files_from_patch(tasks[i].test_patch) = {}
          THEN Finished(ReturnsTask(i, "No suitable test files in test_patch", 0))
          ELSE [Pending EXCEPT !.state = "running", !.container = ContainerName(tasks[i])]]
    /\ UNCHANGED <<tasks, n_jobs, results, bpc>>
    /\ UNCHANGED <<varsCorrect, varsTask, varsParse, varsHandle, varsDaemon, varsModels, varsLater>>

\* process(task) ends: the try block (build_env, clean, apply_patch,
\* run_test on the handle's container) has run to its end or to an
\* exception, lines 154-190
ProcessEnd(i) ==
    /\ futures[i].state = "running"
    /\ \E e \in BatchExceptions :
          futures' = [futures EXCEPT ![i] =
                         Finished(ReturnsTask(i, e, IF e = "" THEN 1 ELSE 0))]
    /\ UNCHANGED <<tasks, n_jobs, results, bpc>>
    /\ UNCHANGED <<varsCorrect, varsTask, varsParse, varsHandle, varsDaemon, varsModels, varsLater>>

\* results.append(fut.result()) for a future that is done (as_completed), or
\* the next element of the list comprehension
Collect(i) ==
    /\ bpc = "submitted"
    /\ futures[i].state = "finished"
    /\ ~futures[i].collected
    /\ futures' = [futures EXCEPT ![i].collected = TRUE]
    /\ results' = Append(results, futures[i].result)
    /\ UNCHANGED <<tasks, n_jobs, bpc>>
    /\ UNCHANGED <<varsCorrect, varsTask, varsParse, varsHandle, varsDaemon, varsModels, varsLater>>

\* lines 210-212: the results are written to the output file
WriteOutput ==
    /\ bpc = "submitted"
    /\ \A i \in 1..Len(tasks) : futures[i].collected
    /\ bpc' = "written"
    /\ UNCHANGED <<tasks, n_jobs, futures, results>>
    /\ UNCHANGED <<varsCorrect, varsTask, varsParse, varsHandle, varsDaemon, varsModels, varsLater>>

\* a worker takes the next task of the queue
BeginTask ==
    /\ bpc = "submitted"
    /\ \E i \in 1..Len(tasks) : ProcessBegin(i)

\* a worker comes to the end of its task
EndTask ==
    /\ Running # {}
    /\ \E i \in Running : ProcessEnd(i)

\* the main thread takes a result
CollectResult ==
    /\ bpc = "submitted"
    /\ \E i \in 1..Len(tasks) : Collect(i)

NextBatch ==
    \/ BeginTask
    \/ EndTask
    \/ CollectResult
    \/ WriteOutput

SpecBatch == InitBatch /\ [][NextBatch]_vars

\* C14: two tasks that are running at the same time never hold a container
\* (or a working directory) of the same name.
C14_NoSharedContainer ==
    \A i \in Running : \A j \in Running :
        i # j => futures[i].container # futures[j].container

\* the positions of the result list that hold the record of task i
RecordsOf(i) == {k \in 1..Len(results) : results[k].kind = "task" /\ results[k].idx = i}

\* C15: the list written to the output file has exactly one record for each
\* task of the input, and the record of a task whose repo_build is not 1
\* carries exception "skip, not builded" and run_status 0.
C15_OneRecordPerTask ==
    bpc = "written" =>
        /\ Len(results) = Len(tasks)
        /\ \A i \in 1..Len(tasks) :
              /\ Cardinality(RecordsOf(i)) = 1
              /\ tasks[i].repo_build # 1 =>
                    \A k \in RecordsOf(i) :
                        /\ results[k].exception = "skip, not builded"
                        /\ results[k].run_status = 0

(***************************************************************************)
(* _merge_reports of merged reports                                        *)
(***************************************************************************)
MaxMerged == 1      \* the total and the collected count of a report to merge

\* the dicts given to _merge_reports: the empty dict and reports whose
\* summary need not be consistent
MergeInputs(n) ==
    {EmptyDict} \cup
    {Report(Summary(c.total, c.total, c.failed, c.skipped, c.errors, c.collected),
            {"errors", "collected"}, c.status) :
        c \in [total : 0..n, failed : 0..1, skipped : 0..1, errors : 0..1,
               collected : 0..n, status : {"passed"}]}

InitMerge ==
    /\ parser = "none"
    /\ pinput \in MergeInputs(MaxMerged) \X MergeInputs(MaxMerged) \X MergeInputs(MaxMerged)
    /\ report = [kind |-> "none"]
    /\ IdleHandle
    /\ IdleMore
    /\ IdleCorrect
    /\ IdleTask

\* the three reports merged at once, and the first two merged before the
\* third is merged with their result
Merged(name, flat, nested) ==
    /\ parser' = name
    /\ report' = [kind |-> "merged", flat |-> flat, nested |-> nested]
    /\ UNCHANGED <<pinput, varsCorrect, varsTask, varsHandle, varsMore>>

CppMergeNested ==
    /\ parser = "none"
    /\ Merged("CppDockerRepo._merge_reports",
              CppMergeReports(pinput),
              CppMergeReports(<<CppMergeReports(<<pinput[1], pinput[2]>>), pinput[3]>>))

KotlinMergeNested ==
    /\ parser = "none"
    /\ Merged("KotlinDockerRepo._merge_reports",
              KotlinMergeReports(pinput),
              KotlinMergeReports(<<KotlinMergeReports(<<pinput[1], pinput[2]>>), pinput[3]>>))

RubyMergeNested ==
    /\ parser = "none"
    /\ Merged("RubyDockerRepo._merge_reports",
              RubyMergeReports(pinput),
              RubyMergeReports(<<RubyMergeReports(<<pinput[1], pinput[2]>>), pinput[3]>>))

NextMerge ==
    \/ CppMergeNested
    \/ KotlinMergeNested
    \/ RubyMergeNested

SpecMerge == InitMerge /\ [][NextMerge]_vars

\* C18: merging the merge of A and B with C gives the summary that merging
\* A, B and C at once gives, in total, passed, failed, skipped, errors and
\* collected.
C18_MergeAssociative ==
    report.kind = "merged" => report.nested.summary = report.flat.summary

\* reports whose collected counts differ from their totals were merged
C18_Witness ==
    /\ report.kind = "merged"
    /\ parser = "RubyDockerRepo._merge_reports"
    /\ pinput[1].summary.collected # pinput[1].summary.total
    /\ pinput[3].summary.total > 0
    /\ report.flat.summary.total > 1

(***************************************************************************)
(* core/models.py: Task.task_id and PythonTask.run                         *)
(***************************************************************************)
MaxRuns == 2        \* calls of run on one task

\* the fields of a PythonTask that differ between the tasks of the model:
\* repo as its segments between "/", base_commit as its characters before
\* the last four and the last four, patch, timeout_test, fail_to_pass
\* (<<>> for None) and _ok ("None", "False", "True"); image_name,
\* command_build, command_test, pass_to_pass and timeout_build have their
\* defaults
PythonTasks ==
    [repo : {<<"org", "repo">>, <<"fork", "repo">>},
     base_commit : {<<"aaaa", "1111">>, <<"bbbb", "1111">>},
     patch : {"", "diff"}, timeout_test : {600, 60},
     fail_to_pass : {<<>>, <<"t1">>}, _ok : {"None", "False", "True"}]

\* asdict(self): every field of the dataclass, _ok among them
to_dict(t) == <<t.repo, t.base_commit, t.patch, t.timeout_test, t.fail_to_pass, t._ok>>

\* hashlib.md5(json.dumps(task_dict, sort_keys=True,
\* separators=(',', ':')).encode('utf-8')).hexdigest()[:4], for the dicts of
\* the tasks above
md5_hexdigest_4(d) ==
    CASE d = <<<<"org", "repo">>, <<"aaaa", "1111">>, "", 600, <<>>, "None">> -> "5c72"
      [] d = <<<<"org", "repo">>, <<"aaaa", "1111">>, "", 600, <<>>, "False">> -> "922e"
      [] d = <<<<"org", "repo">>, <<"aaaa", "1111">>, "", 600, <<>>, "True">> -> "1559"
      [] d = <<<<"org", "repo">>, <<"aaaa", "1111">>, "", 600, <<"t1">>, "None">> -> "8fb1"
      [] d = <<<<"org", "repo">>, <<"aaaa", "1111">>, "", 600, <<"t1">>, "False">> -> "a39e"
      [] d = <<<<"org", "repo">>, <<"aaaa", "1111">>, "", 600, <<"t1">>, "True">> -> "b022"
      [] d = <<<<"org", "repo">>, <<"aaaa", "1111">>, "", 60, <<>>, "None">> -> "d7a1"
      [] d = <<<<"org", "repo">>, <<"aaaa", "1111">>, "", 60, <<>>, "False">> -> "3487"
      [] d = <<<<"org", "repo">>, <<"aaaa", "1111">>, "", 60, <<>>, "True">> -> "0355"
      [] d = <<<<"org", "repo">>, <<"aaaa", "1111">>, "", 60, <<"t1">>, "None">> -> "5fc2"
      [] d = <<<<"org", "repo">>, <<"aaaa", "1111">>, "", 60, <<"t1">>, "False">> -> "cdce"
      [] d = <<<<"org", "repo">>, <<"aaaa", "1111">>, "", 60, <<"t1">>, "True">> -> "cd6c"
      [] d = <<<<"org", "repo">>, <<"aaaa", "1111">>, "diff", 600, <<>>, "None">> -> "fda4"
      [] d = <<<<"org", "repo">>, <<"aaaa", "1111">>, "diff", 600, <<>>, "False">> -> "441c"
      [] d = <<<<"org", "repo">>, <<"aaaa", "1111">>, "diff", 600, <<>>, "True">> -> "4725"
      [] d = <<<<"org", "repo">>, <<"aaaa", "1111">>, "diff", 600, <<"t1">>, "None">> -> "eebe"
      [] d = <<<<"org", "repo">>, <<"aaaa", "1111">>, "diff", 600, <<"t1">>, "False">> -> "3251"
      [] d = <<<<"org", "repo">>, <<"aaaa", "1111">>, "diff", 600, <<"t1">>, "True">> -> "07ab"
      [] d = <<<<"org", "repo">>, <<"aaaa", "1111">>, "diff", 60, <<>>, "None">> -> "14ec"
      [] d = <<<<"org", "repo">>, <<"aaaa", "1111">>, "diff", 60, <<>>, "False">> -> "69ff"
      [] d = <<<<"org", "repo">>, <<"aaaa", "1111">>, "diff", 60, <<>>, "True">> -> "396b"
      [] d = <<<<"org", "repo">>, <<"aaaa", "1111">>, "diff", 60, <<"t1">>, "None">> -> "4bee"
      [] d = <<<<"org", "repo">>, <<"aaaa", "1111">>, "diff", 60, <<"t1">>, "False">> -> "16b6"
      [] d = <<<<"org", "repo">>, <<"aaaa", "1111">>, "diff", 60, <<"t1">>, "True">> -> "33ed"
      [] d = <<<<"org", "repo">>, <<"bbbb", "1111">>, "", 600, <<>>, "None">> -> "56f6"
      [] d = <<<<"org", "repo">>, <<"bbbb", "1111">>, "", 600, <<>>, "False">> -> "2b43"
      [] d = <<<<"org", "repo">>, <<"bbbb", "1111">>, "", 600, <<>>, "True">> -> "fcce"
      [] d = <<<<"org", "repo">>, <<"bbbb", "1111">>, "", 600, <<"t1">>, "None">> -> "c988"
      [] d = <<<<"org", "repo">>, <<"bbbb", "1111">>, "", 600, <<"t1">>, "False">> -> "29d1"
      [] d = <<<<"org", "repo">>, <<"bbbb", "1111">>, "", 600, <<"t1">>, "True">> -> "a775"
      [] d = <<<<"org", "repo">>, <<"bbbb", "1111">>, "", 60, <<>>, "None">> -> "3de9"
      [] d = <<<<"org", "repo">>, <<"bbbb", "1111">>, "", 60, <<>>, "False">> -> "b8b2"
      [] d = <<<<"org", "repo">>, <<"bbbb", "1111">>, "", 60, <<>>, "True">> -> "a075"
      [] d = <<<<"org", "repo">>, <<"bbbb", "1111">>, "", 60, <<"t1">>, "None">> -> "23db"
      [] d = <<<<"org", "repo">>, <<"bbbb", "1111">>, "", 60, <<"t1">>, "False">> -> "8009"
      [] d = <<<<"org", "repo">>, <<"bbbb", "1111">>, "", 60, <<"t1">>, "True">> -> "9e11"
      [] d = <<<<"org", "repo">>, <<"bbbb", "1111">>, "diff", 600, <<>>, "None">> -> "94c3"
      [] d = <<<<"org", "repo">>, <<"bbbb", "1111">>, "diff", 600, <<>>, "False">> -> "d7b1"
      [] d = <<<<"org", "repo">>, <<"bbbb", "1111">>, "diff", 600, <<>>, "True">> -> "1cff"
      [] d = <<<<"org", "repo">>, <<"bbbb", "1111">>, "diff", 600, <<"t1">>, "None">> -> "7ab4"
      [] d = <<<<"org", "repo">>, <<"bbbb", "1111">>, "diff", 600, <<"t1">>, "False">> -> "9e5e"
      [] d = <<<<"org", "repo">>, <<"bbbb", "1111">>, "diff", 600, <<"t1">>, "True">> -> "7931"
      [] d = <<<<"org", "repo">>, <<"bbbb", "1111">>, "diff", 60, <<>>, "None">> -> "1067"
      [] d = <<<<"org", "repo">>, <<"bbbb", "1111">>, "diff", 60, <<>>, "False">> -> "b7a1"
      [] d = <<<<"org", "repo">>, <<"bbbb", "1111">>, "diff", 60, <<>>, "True">> -> "d140"
      [] d = <<<<"org", "repo">>, <<"bbbb", "1111">>, "diff", 60, <<"t1">>, "None">> -> "1c2e"
      [] d = <<<<"org", "repo">>, <<"bbbb", "1111">>, "diff", 60, <<"t1">>, "False">> -> "f15c"
      [] d = <<<<"org", "repo">>, <<"bbbb", "1111">>, "diff", 60, <<"t1">>, "True">> -> "100f"
      [] d = <<<<"fork", "repo">>, <<"aaaa", "1111">>, "", 600, <<>>, "None">> -> "bee2"
      [] d = <<<<"fork", "repo">>, <<"aaaa", "1111">>, "", 600, <<>>, "False">> -> "5a7c"
      [] d = <<<<"fork", "repo">>, <<"aaaa", "1111">>, "", 600, <<>>, "True">> -> "11e9"
      [] d = <<<<"fork", "repo">>, <<"aaaa", "1111">>, "", 600, <<"t1">>, "None">> -> "0fb0"
      [] d = <<<<"fork", "repo">>, <<"aaaa", "1111">>, "", 600, <<"t1">>, "False">> -> "cfdc"
      [] d = <<<<"fork", "repo">>, <<"aaaa", "1111">>, "", 600, <<"t1">>, "True">> -> "b602"
      [] d = <<<<"fork", "repo">>, <<"aaaa", "1111">>, "", 60, <<>>, "None">> -> "1a0c"
      [] d = <<<<"fork", "repo">>, <<"aaaa", "1111">>, "", 60, <<>>, "False">> -> "387d"
      [] d = <<<<"fork", "repo">>, <<"aaaa", "1111">>, "", 60, <<>>, "True">> -> "53fe"
      [] d = <<<<"fork", "repo">>, <<"aaaa", "1111">>, "", 60, <<"t1">>, "None">> -> "18ae"
      [] d = <<<<"fork", "repo">>, <<"aaaa", "1111">>, "", 60, <<"t1">>, "False">> -> "4bce"
      [] d = <<<<"fork", "repo">>, <<"aaaa", "1111">>, "", 60, <<"t1">>, "True">> -> "4e2c"
      [] d = <<<<"fork", "repo">>, <<"aaaa", "1111">>, "diff", 600, <<>>, "None">> -> "b360"
      [] d = <<<<"fork", "repo">>, <<"aaaa", "1111">>, "diff", 600, <<>>, "False">> -> "222b"
      [] d = <<<<"fork", "repo">>, <<"aaaa", "1111">>, "diff", 600, <<>>, "True">> -> "2d01"
      [] d = <<<<"fork", "repo">>, <<"aaaa", "1111">>, "diff", 600, <<"t1">>, "None">> -> "99e6"
      [] d = <<<<"fork", "repo">>, <<"aaaa", "1111">>, "diff", 600, <<"t1">>, "False">> -> "68d5"
      [] d = <<<<"fork", "repo">>, <<"aaaa", "1111">>, "diff", 600, <<"t1">>, "True">> -> "6fcd"
      [] d = <<<<"fork", "repo">>, <<"aaaa", "1111">>, "diff", 60, <<>>, "None">> -> "9062"
      [] d = <<<<"fork", "repo">>, <<"aaaa", "1111">>, "diff", 60, <<>>, "False">> -> "e1e0"
      [] d = <<<<"fork", "repo">>, <<"aaaa", "1111">>, "diff", 60, <<>>, "True">> -> "0860"
      [] d = <<<<"fork", "repo">>, <<"aaaa", "1111">>, "diff", 60, <<"t1">>, "None">> -> "df92"
      [] d = <<<<"fork", "repo">>, <<"aaaa", "1111">>, "diff", 60, <<"t1">>, "False">> -> "7f66"
      [] d = <<<<"fork", "repo">>, <<"aaaa", "1111">>, "diff", 60, <<"t1">>, "True">> -> "1970"
      [] d = <<<<"fork", "repo">>, <<"bbbb", "1111">>, "", 600, <<>>, "None">> -> "0645"
      [] d = <<<<"fork", "repo">>, <<"bbbb", "1111">>, "", 600, <<>>, "False">> -> "7e7b"
      [] d = <<<<"fork", "repo">>, <<"bbbb", "1111">>, "", 600, <<>>, "True">> -> "f9f2"
      [] d = <<<<"fork", "repo">>, <<"bbbb", "1111">>, "", 600, <<"t1">>, "None">> -> "a39e"
      [] d = <<<<"fork", "repo">>, <<"bbbb", "1111">>, "", 600, <<"t1">>, "False">> -> "f566"
      [] d = <<<<"fork", "repo">>, <<"bbbb", "1111">>, "", 600, <<"t1">>, "True">> -> "1f6b"
      [] d = <<<<"fork", "repo">>, <<"bbbb", "1111">>, "", 60, <<>>, "None">> -> "34c2"
      [] d = <<<<"fork", "repo">>, <<"bbbb", "1111">>, "", 60, <<>>, "False">> -> "707d"
      [] d = <<<<"fork", "repo">>, <<"bbbb", "1111">>, "", 60, <<>>, "True">> -> "06c7"
      [] d = <<<<"fork", "repo">>, <<"bbbb", "1111">>, "", 60, <<"t1">>, "None">> -> "fb65"
      [] d = <<<<"fork", "repo">>, <<"bbbb", "1111">>, "", 60, <<"t1">>, "False">> -> "d128"
      [] d = <<<<"fork", "repo">>, <<"bbbb", "1111">>, "", 60, <<"t1">>, "True">> -> "dfe2"
      [] d = <<<<"fork", "repo">>, <<"bbbb", "1111">>, "diff", 600, <<>>, "None">> -> "b912"
      [] d = <<<<"fork", "repo">>, <<"bbbb", "1111">>, "diff", 600, <<>>, "False">> -> "75da"
      [] d = <<<<"fork", "repo">>, <<"bbbb", "1111">>, "diff", 600, <<>>, "True">> -> "600d"
      [] d = <<<<"fork", "repo">>, <<"bbbb", "1111">>, "diff", 600, <<"t1">>, "None">> -> "da77"
      [] d = <<<<"fork", "repo">>, <<"bbbb", "1111">>, "diff", 600, <<"t1">>, "False">> -> "594a"
      [] d = <<<<"fork", "repo">>, <<"bbbb", "1111">>, "diff", 600, <<"t1">>, "True">> -> "a0f6"
      [] d = <<<<"fork", "repo">>, <<"bbbb", "1111">>, "diff", 60, <<>>, "None">> -> "5c0f"
      [] d = <<<<"fork", "repo">>, <<"bbbb", "1111">>, "diff", 60, <<>>, "False">> -> "b54a"
      [] d = <<<<"fork", "repo">>, <<"bbbb", "1111">>, "diff", 60, <<>>, "True">> -> "cf0c"
      [] d = <<<<"fork", "repo">>, <<"bbbb", "1111">>, "diff", 60, <<"t1">>, "None">> -> "b85c"
      [] d = <<<<"fork", "repo">>, <<"bbbb", "1111">>, "diff", 60, <<"t1">>, "False">> -> "fb0b"
      [] d = <<<<"fork", "repo">>, <<"bbbb", "1111">>, "diff", 60, <<"t1">>, "True">> -> "26e8"

\* Task.task_id
task_id(t) ==
    <<t.repo[Len(t.repo)], t.base_commit[Len(t.base_commit)], md5_hexdigest_4(to_dict(t))>>

\* what self._repo.run_test returns or raises: the "passed" entry of the
\* summary of its report (<<>> when the report has none)
TestRuns == {[raised |-> "DockerException", passed |-> <<>>],
             [raised |-> "none", passed |-> <<>>],
             [raised |-> "none", passed |-> <<0>>],
             [raised |-> "none", passed |-> <<1>>]}

\* PythonTask._run_test: _ok is False from the start and True when the
\* report counts a passed test; None > 0 is a TypeError
_run_test(t, test) ==
    LET started == [t EXCEPT !._ok = "False"]
    IN  IF test.raised # "none" THEN [task |-> started, raised |-> test.raised]
        ELSE IF test.passed = <<>> THEN [task |-> started, raised |-> "TypeError"]
        ELSE IF test.passed[1] > 0 THEN [task |-> [started EXCEPT !._ok = "True"], raised |-> "none"]
        ELSE [task |-> started, raised |-> "none"]

\* PythonTask.run: _set_params, _init_repo, _build_env, _run_test, save; the
\* file is named after the task_id at the time of the save
run(t, build_raised, test) ==
    IF build_raised # "none"
    THEN [task |-> t, raised |-> build_raised, saved |-> <<>>]
    ELSE LET tested == _run_test(t, test)
         IN  [task |-> tested.task, raised |-> tested.raised,
              saved |-> IF tested.raised = "none" THEN <<task_id(tested.task)>> ELSE <<>>]

InitModels ==
    /\ mtask \in {t \in PythonTasks : t._ok = "None"}
    /\ mlast = [op |-> "none"]
    /\ nruns = 0
    /\ IdleCorrect
    /\ IdleTask
    /\ IdleParse
    /\ IdleHandle
    /\ IdleDaemon
    /\ IdleBatch
    /\ IdleLater

PythonTaskRun ==
    /\ nruns < MaxRuns
    /\ \E build_raised \in {"none", "TimeOutException"}, test \in TestRuns :
          LET ran == run(mtask, build_raised, test)
          IN  /\ mtask' = ran.task
              /\ mlast' = [op |-> "run", raised |-> ran.raised, saved |-> ran.saved,
                           id_before |-> task_id(mtask)]
    /\ nruns' = nruns + 1
    /\ UNCHANGED <<varsCorrect, varsTask, varsParse, varsHandle, varsDaemon, varsBatch, varsLater>>

NextModels == PythonTaskRun

SpecModels == InitModels /\ [][NextModels]_vars

\* the fields the configuration of a task consists of: repo, base_commit,
\* image, commands, patch and timeouts
SameConfiguration(t, u) ==
    /\ t.repo = u.repo
    /\ t.base_commit = u.base_commit
    /\ t.patch = u.patch
    /\ t.timeout_test = u.timeout_test

\* C20: a task that was run has the task_id it had before the run, which is
\* the task_id of every task of the same repo, base_commit, image, commands,
\* patch and timeouts.
C20_TaskIdStable ==
    mlast.op = "run" =>
        /\ task_id(mtask) = mlast.id_before
        /\ \A t \in PythonTasks : SameConfiguration(t, mtask) => task_id(t) = task_id(mtask)

(***************************************************************************)
(* Local repositories: subprocess_run and subprocess_popen                 *)
(* (core/local/base.py)                                                    *)
(***************************************************************************)
MaxTimeout == 2     \* the timeout argument, in seconds
MaxOutput == 2      \* lines a process writes to one of its streams
PipeLines == 1      \* lines a pipe holds before a write to it blocks

MaxTime == MaxTimeout + 2   \* seconds the clock of a call is followed for

ExitCodes == {0, 1}

InitLocal ==
    /\ IdleLocal
    /\ IdleCorrect
    /\ IdleTask
    /\ IdleParse
    /\ IdleHandle
    /\ IdleDaemon
    /\ IdleBatch
    /\ IdleModels

UnchangedByLocal ==
    UNCHANGED <<varsCorrect, varsTask, varsParse, varsHandle, varsDaemon, varsBatch, varsModels>>

\* the process Popen / subprocess.run starts: running, both pipes open and
\* empty, nothing written yet
Spawned ==
    [state |-> "running", stdout_open |-> TRUE, stderr_open |-> TRUE, out |-> 0, err |-> 0,
     wrote_out |-> 0, wrote_err |-> 0, returncode |-> <<>>]

\* the fields of the repository during a call: the lines collected in
\* self.stdout and self.stderr, whether the timeout note was appended to
\* self.stderr, self.returncode (<<>> while it is not set), the exception
\* raised and the returncode of the dict returned (<<>> when none was)
Calling(op, timeout) ==
    [op |-> op, timeout |-> timeout, stdout |-> 0, stderr |-> 0, timeout_note |-> FALSE,
     returncode |-> <<>>, raised |-> "none", returned |-> <<>>]

\* subprocess_run: subprocess.run waits for the command at most timeout
\* seconds and kills it when they are over.  finished: the command exits
\* within the timeout, with status rc, having written the given lines.
subprocess_run(timeout, finished, rc, lines_out, lines_err) ==
    LET call == Calling("subprocess_run", timeout)
    IN  IF finished
        THEN LET result   == [stdout |-> lines_out, stderr |-> lines_err, returncode |-> rc]
                 assigned == [call EXCEPT !.stdout = result.stdout, !.stderr = result.stderr,
                                          !.returncode = <<result.returncode>>]
                 custom   == [assigned EXCEPT !.returncode = <<-1>>]
             IN  [custom EXCEPT !.returned = custom.returncode]
        ELSE [call EXCEPT !.stdout = 0, !.timeout_note = TRUE, !.returncode = <<2>>,
                          !.raised = "TimeOutException"]

SubprocessRun ==
    /\ lpc = "idle"
    /\ \E timeout \in 1..MaxTimeout, finished \in BOOLEAN, rc \in ExitCodes,
          lines_out \in 0..MaxOutput, lines_err \in 0..MaxOutput :
          /\ local' = subprocess_run(timeout, finished, rc, lines_out, lines_err)
          /\ process' = IF finished
                        THEN [Spawned EXCEPT !.state = "exited", !.returncode = <<rc>>,
                                             !.stdout_open = FALSE, !.stderr_open = FALSE,
                                             !.wrote_out = lines_out, !.wrote_err = lines_err]
                        ELSE [Spawned EXCEPT !.state = "killed", !.stdout_open = FALSE,
                                             !.stderr_open = FALSE]
          /\ lpc' = IF finished THEN "returned" ELSE "raised"
          /\ elapsed' = IF finished THEN 0 ELSE timeout
    /\ UNCHANGED wait_start
    /\ UnchangedByLocal

\* subprocess_popen up to the first readline
PopenStart ==
    /\ lpc = "idle"
    /\ \E timeout \in 1..MaxTimeout : local' = Calling("subprocess_popen", timeout)
    /\ process' = Spawned
    /\ lpc' = "read_stdout"
    /\ UNCHANGED <<elapsed, wait_start>>
    /\ UnchangedByLocal

\* ---- the command ----
ProcessWritesStdout ==
    /\ process.state = "running" /\ process.stdout_open
    /\ process.out < PipeLines /\ process.wrote_out < MaxOutput
    /\ process' = [process EXCEPT !.out = @ + 1, !.wrote_out = @ + 1]
    /\ UNCHANGED <<local, lpc, elapsed, wait_start>>
    /\ UnchangedByLocal

ProcessWritesStderr ==
    /\ process.state = "running" /\ process.stderr_open
    /\ process.err < PipeLines /\ process.wrote_err < MaxOutput
    /\ process' = [process EXCEPT !.err = @ + 1, !.wrote_err = @ + 1]
    /\ UNCHANGED <<local, lpc, elapsed, wait_start>>
    /\ UnchangedByLocal

ProcessClosesStdout ==
    /\ process.state = "running" /\ process.stdout_open
    /\ process' = [process EXCEPT !.stdout_open = FALSE]
    /\ UNCHANGED <<local, lpc, elapsed, wait_start>>
    /\ UnchangedByLocal

ProcessClosesStderr ==
    /\ process.state = "running" /\ process.stderr_open
    /\ process' = [process EXCEPT !.stderr_open = FALSE]
    /\ UNCHANGED <<local, lpc, elapsed, wait_start>>
    /\ UnchangedByLocal

ProcessExits ==
    /\ process.state = "running"
    /\ \E rc \in ExitCodes :
          process' = [process EXCEPT !.state = "exited", !.returncode = <<rc>>,
                                     !.stdout_open = FALSE, !.stderr_open = FALSE]
    /\ UNCHANGED <<local, lpc, elapsed, wait_start>>
    /\ UnchangedByLocal

\* a second passes while subprocess_popen is in progress; process.wait
\* does not let more than timeout seconds pass
Tick ==
    /\ lpc \in {"read_stdout", "read_stderr", "wait"}
    /\ elapsed < MaxTime
    /\ lpc = "wait" => (process.state = "running" /\ elapsed - wait_start < local.timeout)
    /\ elapsed' = elapsed + 1
    /\ UNCHANGED <<process, local, lpc, wait_start>>
    /\ UnchangedByLocal

\* ---- subprocess_popen ----
\* for line in iter(process.stdout.readline, ""): readline returns a line
\* when the pipe holds one, "" at end of file, and blocks otherwise
ReadStdoutLine ==
    /\ lpc = "read_stdout" /\ process.out > 0
    /\ process' = [process EXCEPT !.out = @ - 1]
    /\ local' = [local EXCEPT !.stdout = @ + 1]
    /\ UNCHANGED <<lpc, elapsed, wait_start>>
    /\ UnchangedByLocal

ReadStdoutEof ==
    /\ lpc = "read_stdout" /\ process.out = 0 /\ ~process.stdout_open
    /\ lpc' = "read_stderr"
    /\ UNCHANGED <<process, local, elapsed, wait_start>>
    /\ UnchangedByLocal

ReadStderrLine ==
    /\ lpc = "read_stderr" /\ process.err > 0
    /\ process' = [process EXCEPT !.err = @ - 1]
    /\ local' = [local EXCEPT !.stderr = @ + 1]
    /\ UNCHANGED <<lpc, elapsed, wait_start>>
    /\ UnchangedByLocal

ReadStderrEof ==
    /\ lpc = "read_stderr" /\ process.err = 0 /\ ~process.stderr_open
    /\ lpc' = "wait"
    /\ wait_start' = elapsed
    /\ UNCHANGED <<process, local, elapsed>>
    /\ UnchangedByLocal

\* process.wait(timeout) returns; self.returncode = process.returncode
WaitReturns ==
    /\ lpc = "wait" /\ process.state = "exited"
    /\ local' = [local EXCEPT !.returncode = process.returncode,
                              !.returned = process.returncode]
    /\ lpc' = "returned"
    /\ UNCHANGED <<process, elapsed, wait_start>>
    /\ UnchangedByLocal

\* process.wait(timeout) raises TimeoutExpired: kill, returncode 2, raise
WaitExpires ==
    /\ lpc = "wait" /\ process.state = "running"
    /\ elapsed - wait_start >= local.timeout
    /\ process' = [process EXCEPT !.state = "killed", !.stdout_open = FALSE,
                                  !.stderr_open = FALSE]
    /\ local' = [local EXCEPT !.timeout_note = TRUE, !.returncode = <<2>>,
                              !.raised = "TimeOutException"]
    /\ lpc' = "raised"
    /\ UNCHANGED <<elapsed, wait_start>>
    /\ UnchangedByLocal

PopenStep ==
    \/ ReadStdoutLine
    \/ ReadStdoutEof
    \/ ReadStderrLine
    \/ ReadStderrEof
    \/ WaitReturns
    \/ WaitExpires

NextLocal ==
    \/ SubprocessRun
    \/ PopenStart
    \/ ProcessWritesStdout
    \/ ProcessWritesStderr
    \/ ProcessClosesStdout
    \/ ProcessClosesStderr
    \/ ProcessExits
    \/ Tick
    \/ ReadStdoutLine
    \/ ReadStdoutEof
    \/ ReadStderrLine
    \/ ReadStderrEof
    \/ WaitReturns
    \/ WaitExpires

SpecLocal == InitLocal /\ [][NextLocal]_vars

\* the interpreter runs subprocess_popen whenever its next statement can
\* run, and time passes; the command is under no obligation: it may never
\* write, close a stream or exit
SpecLocalFair == SpecLocal /\ WF_vars(PopenStep) /\ WF_vars(Tick)

\* C24: subprocess_run returns the return code of the process it ran when
\* the command finishes within the timeout (0 for a command that exits with
\* 0); when it does not, returncode is set to 2 and TimeOutException is
\* raised.
C24_RunReturnCode ==
    local.op = "subprocess_run" =>
        IF process.state = "exited"
        THEN local.raised = "none" /\ local.returned = process.returncode
        ELSE local.raised = "TimeOutException" /\ local.returncode = <<2>>

\* subprocess_popen was called and has neither returned nor raised
PopenPending == lpc \in {"read_stdout", "read_stderr", "wait"}

\* C29: a call of subprocess_popen comes to an end, whatever the command
\* does: it returns, or the process is killed and TimeOutException raised.
C29_PopenTerminates ==
    PopenPending ~>
        \/ lpc = "returned"
        \/ lpc = "raised" /\ process.state = "killed" /\ local.raised = "TimeOutException"

====
